---------------------------- MODULE Spec2Model ----------------------------
(***************************************************************************)
(* Pulse module extraction: the crawler (src/utils/crawler.py) and the     *)
(* chunking and merging helpers of the extractor                            *)
(* (src/pulse/utils/extractor.py).                                          *)
(*                                                                          *)
(* Strings are sequences of tokens: a token is a delimiter character       *)
(* ("/", ".", "?", "#", " ") or an atomic run of other characters.         *)
(* Python dicts are functions whose DOMAIN is the key set.                  *)
(***************************************************************************)
EXTENDS Integers, Sequences, FiniteSets, TLC

VARIABLES
    \* ---- Crawler object (crawler.py:15-28) and the position in crawl()
    max_pages, max_depth,
    visited_urls, queue, content_map,
    url_hierarchy, url_titles, url_depths, url_metadata, url_structure,
    pc,            \* "new" | "loop" | "done" | "raised" | "off"
    start_url,     \* the argument of crawl()
    error_log,     \* URLs for which extract_clean_text logged an error
    \* ---- is_valid_url call
    uv,
    \* ---- _chunk_text call
    ck,
    \* ---- _merge_module_results / _merge_modules call
    mg,
    \* ---- _identify_potential_modules call
    pm,
    \* ---- extract_modules run
    ex,
    \* ---- crawl_multiple run
    cm,
    \* ---- extract_document_structure / _extract_subheadings call
    ds,
    \* ---- the choice of the stored text in extract_clean_text
    tx,
    \* ---- crawls of one Crawler object against a fixed site
    rr

crawlVars == <<max_pages, max_depth, visited_urls, queue, content_map,
               url_hierarchy, url_titles, url_depths, url_metadata,
               url_structure, pc, start_url, error_log>>
restVars == <<ds, tx, rr>>
vars == <<crawlVars, uv, ck, mg, pm, ex, cm, restVars>>

-----------------------------------------------------------------------------
(* Bounds *)

MaxPagesBound == 3      \* max_pages ranges over 1..MaxPagesBound
MaxDepthBound == 2      \* max_depth ranges over 0..MaxDepthBound
MaxAnchors    == 2      \* <a href> tags on one fetched page
MaxTailLen    == 4      \* tokens of a candidate URL after its host
MaxTextLen    == 6      \* characters of a text handed to _chunk_text
MaxTokensBound == 4     \* max_tokens ranges over 0..MaxTokensBound
MaxDescLen    == 1      \* characters of a description
MaxResults    == 2      \* chunk results handed to one merge
MaxChildren   == 2      \* children listed under one hierarchy key
MaxHeadings   == 3      \* headings of one page
MaxChunks     == 2      \* chunks of one module's or the corpus' content

-----------------------------------------------------------------------------
(* Generic helpers: dicts and token strings *)

EmptyMap == [x \in {} |-> 0]

Put(f, k, v) == [x \in DOMAIN f \cup {k} |-> IF x = k THEN v ELSE f[x]]

Range(s) == {s[i] : i \in DOMAIN s}

SeqsUpTo(S, n) == UNION {[1..k -> S] : k \in 0..n}

EndsWith(s, suf) ==
    /\ Len(suf) <= Len(s)
    /\ SubSeq(s, Len(s) - Len(suf) + 1, Len(s)) = suf

StartsWith(s, pre) ==
    /\ Len(pre) <= Len(s)
    /\ SubSeq(s, 1, Len(pre)) = pre

Contains(s, pat) ==
    \E i \in 1..(Len(s) - Len(pat) + 1) : SubSeq(s, i, i + Len(pat) - 1) = pat

\* str.lower(), token by token
LowerTok(t) ==
    CASE t = "PDF" -> "pdf"
      [] t = "JS"  -> "js"
      [] t = "Doc" -> "doc"
      [] OTHER     -> t

Lower(s) == [i \in DOMAIN s |-> LowerTok(s[i])]

\* index of the first token of s at or after position i that lies in S,
\* Len(s)+1 when there is none
RECURSIVE FirstIn(_, _, _)
FirstIn(s, i, S) ==
    IF i > Len(s) THEN Len(s) + 1
    ELSE IF s[i] \in S THEN i
    ELSE FirstIn(s, i + 1, S)


-----------------------------------------------------------------------------
(* URL policy: Crawler.is_valid_url, Crawler.prioritize_urls *)

Scheme == <<"http:", "/", "/">>

\* urlparse(url).netloc: what follows "scheme://" up to the next "/", "?"
\* or "#"; empty when the URL has no "//" authority part
Netloc(url) ==
    IF StartsWith(url, Scheme)
    THEN SubSeq(url, 4, FirstIn(url, 4, {"/", "?", "#"}) - 1)
    ELSE <<>>

skip_extensions ==
    {<<".", e>> : e \in {"pdf", "jpg", "png", "gif", "jpeg", "svg", "mp4",
                         "zip", "css", "js"}}

skip_patterns ==
    {<<"/", p, "/">> : p \in {"cdn-cgi", "wp-content", "wp-includes",
                              "static", "assets"}}

\* the test of crawler.py:51, on the whole URL string
HasSkipExtension(url) == \E ext \in skip_extensions : EndsWith(Lower(url), ext)

\* the test of crawler.py:56
HasSkipPattern(url) == \E pat \in skip_patterns : Contains(url, pat)

\* the test of crawler.py:60
SameDomain(url_domain, base_domain) ==
    \/ url_domain = base_domain
    \/ EndsWith(url_domain, <<".">> \o base_domain)

is_valid_url(url, base_url) ==
    IF url = <<>> THEN FALSE
    ELSE IF HasSkipExtension(url) THEN FALSE
    ELSE IF HasSkipPattern(url) THEN FALSE
    ELSE SameDomain(Netloc(url), Netloc(base_url))

documentation_patterns ==
    {"article", "doc", "help", "guide", "faq", "tutorial", "support",
     "manual", "reference", "category", "section", "topic", "content"}

CountTok(s, t) == Cardinality({i \in DOMAIN s : s[i] = t})

\* a pattern is found in the URL when one of its tokens is the pattern
get_url_priority(url) ==
    IF \E i \in DOMAIN url : LowerTok(url[i]) \in documentation_patterns
    THEN 0
    ELSE CountTok(url, "/")

\* sorted(url_list, key=get_url_priority): stable, ascending
RECURSIVE InsertByPriority(_, _)
InsertByPriority(sorted, u) ==
    IF sorted = <<>> THEN <<u>>
    ELSE IF get_url_priority(sorted[Len(sorted)]) <= get_url_priority(u)
    THEN Append(sorted, u)
    ELSE Append(InsertByPriority(SubSeq(sorted, 1, Len(sorted) - 1), u),
                sorted[Len(sorted)])

RECURSIVE SortedFrom(_, _)
SortedFrom(acc, rest) ==
    IF rest = <<>> THEN acc
    ELSE SortedFrom(InsertByPriority(acc, Head(rest)), Tail(rest))

prioritize_urls(url_list) == SortedFrom(<<>>, url_list)

-----------------------------------------------------------------------------
(* The site the crawler runs against *)

UA == Scheme \o <<"a", ".", "com", "/">>
UD == Scheme \o <<"a", ".", "com", "/", "doc">>
US == Scheme \o <<"sub", ".", "a", ".", "com", "/", "x", "/", "y">>
UF == Scheme \o <<"a", ".", "com", "/", "x", ".", "pdf">>
UG == Scheme \o <<"a", ".", "com", "/", "guide">>

\* an href that urljoin rejects with ValueError (an unclosed "[" host)
BadHref == <<"http:", "/", "/", "[">>

SeedUrls == {UA, UD, US}

\* the <a href> tags a page of the site may carry: href and anchor text
Anchors ==
    { [href |-> UA, text |-> "Home"],
      [href |-> UD, text |-> "Docs"],
      [href |-> UD \o <<"#", "top">>, text |-> "Top"],
      [href |-> US, text |-> ""],
      [href |-> UF, text |-> "Manual"],
      [href |-> BadHref, text |-> "Up"] }

\* what requests.get + BeautifulSoup give get_links: the page's <a href>
\* tags in document order, or the request failing
LinkPages ==
    [anchors : SeqsUpTo(Anchors, MaxAnchors), fetched : {TRUE}]
    \cup {[anchors |-> <<>>, fetched |-> FALSE]}

\* the page get_links never asks for (it returns before the request)
NoPage == [anchors |-> <<>>, fetched |-> FALSE]

\* what the try block of extract_clean_text does for one URL: it runs
\* normally (raises = FALSE, all three stores done), or an exception leaves
\* it after `stored` of the stores titles, metadata, structure
TextOutcomes ==
    [raises : {FALSE}, stored : {3}, title : {"Untitled", "Page"},
     text : {"", "body"}]
    \cup [raises : {TRUE}, stored : 0..3, title : {"Page"}, text : {""}]

-----------------------------------------------------------------------------
(* Crawler.extract_clean_text *)

\* the stores of crawler.py:70, 74, 81 that the outcome o reaches, for url
StoreTitle(titles, url, o) ==
    IF o.stored >= 1 THEN Put(titles, url, o.title) ELSE titles

StoreMetadata(metadata, url, o) ==
    IF o.stored >= 2 THEN Put(metadata, url, "metadata") ELSE metadata

StoreStructure(structure, url, o) ==
    IF o.stored >= 3 THEN Put(structure, url, "structure") ELSE structure

\* (mutant) the except clause catches parse errors only: a failed request
\* (nothing stored yet) leaves the function
TextErrorEscapes_RequestOnly(o) == o.stored = 0

\* whether an exception of the try block leaves extract_clean_text:
\* `except Exception` (crawler.py:98) catches every one
TextErrorEscapes(o) == FALSE

\* the returned text: "" from the except branch
extract_clean_text(o) ==
    [text    |-> IF o.raises THEN "" ELSE o.text,
     logged  |-> o.raises,
     escaped |-> o.raises /\ TextErrorEscapes(o)]

-----------------------------------------------------------------------------
(* Crawler.get_links *)

\* re.sub(r'#.*$', '', full_url)
StripFragment(u) == SubSeq(u, 1, FirstIn(u, 1, {"#"}) - 1)

\* crawler.py:294 (no href of the site starts with "javascript:")
SkippedHref(href) == href = <<>> \/ href = <<"#">>

\* urljoin(url, href) of an absolute href is the href; it raises on BadHref
UrlJoinRaises(href) == href = BadHref

\* crawler.py:304: the link is kept
KeepsLink(full_url, url, visited) ==
    is_valid_url(full_url, url) /\ full_url \notin visited

\* (mutant) a page at the maximum depth is still searched for links
AtMaxDepth_Late(current_depth, maxd) == current_depth > maxd

\* crawler.py:281: no link is looked for at this depth
AtMaxDepth(current_depth, maxd) == current_depth >= maxd

\* (mutant) the parent -> child edge is not recorded
LinkStep_NoEdge(st, a, url, current_depth, visited) ==
    LET full_url == StripFragment(a.href) IN
    IF SkippedHref(a.href) \/ ~KeepsLink(full_url, url, visited) THEN st
    ELSE [raised    |-> FALSE,
          links     |-> Append(st.links, full_url),
          hierarchy |-> st.hierarchy,
          depths    |-> Put(st.depths, full_url, current_depth + 1),
          titles    |-> IF a.text # "" /\ full_url \notin DOMAIN st.titles
                        THEN Put(st.titles, full_url, a.text)
                        ELSE st.titles]

\* the body of the loop of crawler.py:290-316 for one <a> tag; st holds
\* links, hierarchy, depths, titles
LinkStep(st, a, url, current_depth, visited) ==
    LET full_url == StripFragment(a.href) IN
    IF SkippedHref(a.href) \/ ~KeepsLink(full_url, url, visited) THEN st
    ELSE [raised    |-> FALSE,
          links     |-> Append(st.links, full_url),
          hierarchy |-> Put(st.hierarchy, url,
                            Append(IF url \in DOMAIN st.hierarchy
                                   THEN st.hierarchy[url] ELSE <<>>,
                                   full_url)),
          depths    |-> Put(st.depths, full_url, current_depth + 1),
          titles    |-> IF a.text # "" /\ full_url \notin DOMAIN st.titles
                        THEN Put(st.titles, full_url, a.text)
                        ELSE st.titles]

\* the loop; an exception ends it with what was stored so far and
\* raised = TRUE
RECURSIVE LinkLoop(_, _, _, _, _)
LinkLoop(st, anchors, url, current_depth, visited) ==
    IF anchors = <<>> THEN st
    ELSE IF ~SkippedHref(Head(anchors).href) /\ UrlJoinRaises(Head(anchors).href)
    THEN [st EXCEPT !.raised = TRUE]
    ELSE LinkLoop(LinkStep(st, Head(anchors), url, current_depth, visited),
                  Tail(anchors), url, current_depth, visited)

\* get_links(url, current_depth) on the page lp: the returned list and the
\* maps as it leaves them; an exception returns [] and keeps what the loop
\* stored before it
get_links(url, current_depth, lp, maxd, visited, hierarchy, depths, titles) ==
    LET st0 == [raised |-> FALSE, links |-> <<>>, hierarchy |-> hierarchy,
                depths |-> depths, titles |-> titles]
    IN  IF AtMaxDepth(current_depth, maxd) \/ ~lp.fetched THEN st0
        ELSE LET st == LinkLoop(st0, lp.anchors, url, current_depth, visited)
             IN  IF st.raised THEN [st EXCEPT !.links = <<>>] ELSE st

-----------------------------------------------------------------------------
(* Crawler.crawl *)

QueueUrls(q) == {q[i][1] : i \in DOMAIN q}

\* (mutant) the budget test lets one page too many through
LoopCond_OffByOne(q, visited, maxp) == q # <<>> /\ Cardinality(visited) <= maxp

\* crawler.py:357
LoopCond(q, visited, maxp) == q # <<>> /\ Cardinality(visited) < maxp

\* (mutant) the URL is never added to the visited set
MarkVisited_Forgotten(visited, url) == visited

\* crawler.py:365
MarkVisited(visited, url) == visited \cup {url}

\* (mutant) a URL already waiting in the queue is queued again
NotQueued_VisitedOnly(link, q, visited) == link \notin visited

\* crawler.py:384
NotQueued(link, q, visited) ==
    link \notin visited /\ link \notin QueueUrls(q)

\* (mutant) the links are put at the front of the queue
RECURSIVE Enqueue_Front(_, _, _, _)
Enqueue_Front(q, links, visited, depth) ==
    IF links = <<>> THEN q
    ELSE LET link == Head(links) IN
         Enqueue_Front(IF NotQueued(link, q, visited)
                       THEN <<<<link, depth>>>> \o q ELSE q,
                       Tail(links), visited, depth)

\* crawler.py:383-385
RECURSIVE Enqueue(_, _, _, _)
Enqueue(q, links, visited, depth) ==
    IF links = <<>> THEN q
    ELSE LET link == Head(links) IN
         Enqueue(IF NotQueued(link, q, visited)
                 THEN Append(q, <<link, depth>>) ELSE q,
                 Tail(links), visited, depth)

\* __init__ (crawler.py:15-28)
CrawlerInit ==
    /\ max_pages \in 1..MaxPagesBound
    /\ max_depth \in 0..MaxDepthBound
    /\ visited_urls = {}
    /\ queue = <<>>
    /\ content_map = EmptyMap
    /\ url_hierarchy = EmptyMap
    /\ url_titles = EmptyMap
    /\ url_depths = EmptyMap
    /\ url_metadata = EmptyMap
    /\ url_structure = EmptyMap
    /\ pc = "new"
    /\ start_url = <<>>
    /\ error_log = {}

\* (mutant) the visited set of the crawl before is kept
CrawlBegin_KeepVisited(seed) ==
    /\ start_url' = seed
    /\ queue' = << <<seed, 0>> >>
    /\ url_depths' = Put(EmptyMap, seed, 0)
    /\ visited_urls' = visited_urls
    /\ content_map' = EmptyMap
    /\ url_hierarchy' = EmptyMap
    /\ url_titles' = EmptyMap
    /\ url_metadata' = EmptyMap
    /\ url_structure' = EmptyMap
    /\ error_log' = {}
    /\ pc' = "loop"
    /\ UNCHANGED <<max_pages, max_depth>>

\* the reset at the top of crawl(seed), crawler.py:348-355
CrawlBegin(seed) ==
    /\ start_url' = seed
    /\ queue' = << <<seed, 0>> >>
    /\ url_depths' = Put(EmptyMap, seed, 0)
    /\ visited_urls' = {}
    /\ content_map' = EmptyMap
    /\ url_hierarchy' = EmptyMap
    /\ url_titles' = EmptyMap
    /\ url_metadata' = EmptyMap
    /\ url_structure' = EmptyMap
    /\ error_log' = {}
    /\ pc' = "loop"
    /\ UNCHANGED <<max_pages, max_depth>>

\* crawl(start_url) on a new Crawler
CrawlStart ==
    /\ pc = "new"
    /\ \E seed \in SeedUrls : CrawlBegin(seed)

\* crawler.py:361-362: the dequeued URL was visited already
CrawlSkip ==
    /\ queue' = Tail(queue)
    /\ UNCHANGED <<visited_urls, content_map, url_hierarchy,
                   url_titles, url_depths, url_metadata,
                   url_structure, pc, error_log>>

\* crawler.py:364-385: the dequeued URL is visited; o is what its fetch
\* and parse do in extract_clean_text, lp the page get_links is given
CrawlVisit(o, lp) ==
    LET current_url   == queue[1][1]
        current_depth == queue[1][2]
        rest          == Tail(queue)
        visited == MarkVisited(visited_urls, current_url)
        content == extract_clean_text(o)
        titles1 == StoreTitle(url_titles, current_url, o)
    IN
    \E gl \in {get_links(current_url, current_depth, lp, max_depth,
                         visited, url_hierarchy, url_depths,
                         titles1)} :
    /\ visited_urls' = visited
    /\ url_metadata' = StoreMetadata(url_metadata, current_url, o)
    /\ url_structure' = StoreStructure(url_structure, current_url, o)
    /\ error_log' = IF content.logged
                    THEN error_log \cup {current_url} ELSE error_log
    /\ IF content.escaped
       THEN \* the exception leaves crawl()
            /\ pc' = "raised"
            /\ queue' = rest
            /\ url_titles' = titles1
            /\ UNCHANGED <<content_map, url_hierarchy, url_depths>>
       ELSE /\ content_map' = IF content.text # ""
                              THEN Put(content_map, current_url,
                                       content.text)
                              ELSE content_map
            /\ url_hierarchy' = gl.hierarchy
            /\ url_depths' = gl.depths
            /\ url_titles' = gl.titles
            /\ queue' = IF current_depth < max_depth
                        THEN Enqueue(rest, prioritize_urls(gl.links),
                                     visited, current_depth + 1)
                        ELSE rest
            /\ pc' = "loop"

\* one iteration of the while loop, crawler.py:357-385
CrawlStep ==
    /\ pc = "loop"
    /\ LoopCond(queue, visited_urls, max_pages)
    /\ IF queue[1][1] \in visited_urls
       THEN CrawlSkip
       ELSE \E o \in TextOutcomes,
               lp \in IF AtMaxDepth(queue[1][2], max_depth)
                      THEN {NoPage} ELSE LinkPages :
                CrawlVisit(o, lp)
    /\ UNCHANGED <<max_pages, max_depth, start_url>>

\* the loop ends and crawl returns the result dict, crawler.py:387-400
CrawlReturn ==
    /\ pc = "loop"
    /\ ~LoopCond(queue, visited_urls, max_pages)
    /\ pc' = "done"
    /\ UNCHANGED <<max_pages, max_depth, visited_urls, queue, content_map,
                   url_hierarchy, url_titles, url_depths, url_metadata,
                   url_structure, start_url, error_log>>

UrlOff == uv = [pc |-> "off"]
ChunkOff == ck = [pc |-> "off"]
MergeOff == mg = [pc |-> "off"]
IdentifyOff == pm = [pc |-> "off"]
ExtractOff == ex = [pc |-> "off"]
MultiOff == cm = [pc |-> "off"]
DocOff == ds = [pc |-> "off"]
TextOff == tx = [pc |-> "off"]
SiteOff == rr = [pc |-> "off"]
RestOff == DocOff /\ TextOff /\ SiteOff

CrawlInit ==
    CrawlerInit /\ UrlOff /\ ChunkOff /\ MergeOff /\ IdentifyOff /\ ExtractOff
    /\ MultiOff /\ RestOff

CrawlNext ==
    \/ CrawlStart /\ UNCHANGED <<uv, ck, mg, pm, ex, cm, restVars>>
    \/ CrawlStep /\ UNCHANGED <<uv, ck, mg, pm, ex, cm, restVars>>
    \/ CrawlReturn /\ UNCHANGED <<uv, ck, mg, pm, ex, cm, restVars>>

SpecCrawl == CrawlInit /\ [][CrawlNext]_vars

-----------------------------------------------------------------------------
(* Properties of the crawl *)

\* the links recorded as somebody's child in url_hierarchy
Discovered == UNION {Range(url_hierarchy[p]) : p \in DOMAIN url_hierarchy}

BudgetSpent == Cardinality(visited_urls) = max_pages

\* C1: in every state of crawl(seed) the visited set holds at most
\* max_pages URLs.
C1_VisitedWithinBudget == Cardinality(visited_urls) <= max_pages

\* C1 witness: the budget binds while links are still waiting.
C1_Witness == pc = "loop" /\ BudgetSpent /\ queue # <<>>

\* the pages the budget still allows
BudgetLeft == max_pages - Cardinality(visited_urls)

\* C2: crawl(seed) terminates, whatever the fetches do, and returns with
\* the frontier empty or the page budget spent.  Every iteration of the
\* loop lowers the pair (pages left in the budget, length of the frontier)
\* in the lexicographic order, the pair never goes below (0, 0), the loop
\* is never stuck while it is running, and it is left only for the return.
C2_Terminates ==
    /\ [][pc = "loop" /\ pc' = "loop" =>
            \/ BudgetLeft' < BudgetLeft
            \/ BudgetLeft' = BudgetLeft /\ Len(queue') < Len(queue)]_vars
    /\ [](BudgetLeft >= 0)
    /\ [](pc = "loop" => ENABLED CrawlNext)
    /\ [][pc = "loop" => pc' \in {"loop", "done"}]_vars
    /\ [](pc = "done" => (queue = <<>> \/ BudgetSpent))

\* C2 witness: a crawl with a failed fetch returns on the budget, links
\* still queued.
C2_Witness ==
    pc = "done" /\ queue # <<>> /\ BudgetSpent /\ error_log # {}

\* C3: every recorded depth lies in 0..max_depth; with max_depth = 1 the
\* depths are 0 or 1 and no URL of depth 1 has children in url_hierarchy.
C3_DepthCap ==
    /\ \A u \in DOMAIN url_depths : url_depths[u] \in 0..max_depth
    /\ max_depth = 1 =>
         \A u \in DOMAIN url_depths :
            /\ url_depths[u] \in {0, 1}
            /\ url_depths[u] = 1 =>
                 (u \notin DOMAIN url_hierarchy \/ url_hierarchy[u] = <<>>)

\* C3 witness: with max_depth = 1 a depth-1 page was visited, and the
\* crawl is over.
C3_Witness ==
    /\ pc = "done" /\ max_depth = 1
    /\ \E u \in visited_urls : u \in DOMAIN url_depths /\ url_depths[u] = 1

\* C4 (as claimed): in the returned result every key of content, titles,
\* depths, metadata and structure belongs to the visited set.
C4_AllKeysVisited ==
    pc = "done" =>
        /\ DOMAIN content_map \subseteq visited_urls
        /\ DOMAIN url_titles \subseteq visited_urls
        /\ DOMAIN url_depths \subseteq visited_urls
        /\ DOMAIN url_metadata \subseteq visited_urls
        /\ DOMAIN url_structure \subseteq visited_urls

\* C4 (amended): at every point of the crawl the keys of content, metadata
\* and structure are visited URLs; a key of titles is a visited URL or a
\* link recorded in url_hierarchy; a key of depths is the seed or a link
\* recorded in url_hierarchy.
C4_KeysVisitedOrDiscovered ==
    pc \in {"loop", "done"} =>
        /\ DOMAIN content_map \subseteq visited_urls
        /\ DOMAIN url_metadata \subseteq visited_urls
        /\ DOMAIN url_structure \subseteq visited_urls
        /\ DOMAIN url_titles \subseteq visited_urls \cup Discovered
        /\ DOMAIN url_depths \subseteq {start_url} \cup Discovered

\* C4 witness: a returned result whose titles and depths hold a link that
\* was never visited, next to stored content.
C4_Witness ==
    /\ pc = "done"
    /\ DOMAIN content_map # {}
    /\ \E u \in DOMAIN url_depths \cap DOMAIN url_titles : u \notin visited_urls

\* C5: a failed fetch or parse of one URL does not end the crawl: no
\* exception leaves crawl, the failed URL is visited and has no content,
\* and the crawl returns only with the frontier empty or the budget spent.
C5_FailureIsolated ==
    /\ pc # "raised"
    /\ error_log \subseteq visited_urls
    /\ error_log \cap DOMAIN content_map = {}
    /\ pc = "done" => (queue = <<>> \/ BudgetSpent)

\* C5 witness: the seed's fetch failed and the crawl went on to visit
\* another page and store its content.
C5_Witness ==
    /\ pc = "done"
    /\ start_url \in error_log
    /\ \E u \in visited_urls : u # start_url /\ u \in DOMAIN content_map


-----------------------------------------------------------------------------
(* A call of is_valid_url on its own *)

Hosts == { <<"a", ".", "com">>,
           <<"sub", ".", "a", ".", "com">>,
           <<"x", "a", ".", "com">> }          \* "xa.com"

TailTokens == {"/", ".", "pdf", "PDF", "static", "?", "x"}

\* candidate URLs: nothing or scheme and host, then any short run of tokens
UrlInputs ==
    {pre \o t : pre \in {<<>>} \cup {Scheme \o h : h \in Hosts},
                t \in SeqsUpTo(TailTokens, MaxTailLen)}

BaseInputs == {UA, US}

\* no crawl is going on
CrawlOff ==
    /\ max_pages = 1 /\ max_depth = 0 /\ visited_urls = {} /\ queue = <<>>
    /\ content_map = EmptyMap /\ url_hierarchy = EmptyMap
    /\ url_titles = EmptyMap /\ url_depths = EmptyMap
    /\ url_metadata = EmptyMap /\ url_structure = EmptyMap
    /\ pc = "off" /\ start_url = <<>> /\ error_log = {}

UrlInit ==
    /\ uv \in [pc : {"call"}, url : UrlInputs, base_url : BaseInputs,
               result : {FALSE}]
    /\ CrawlOff /\ ChunkOff /\ MergeOff /\ IdentifyOff /\ ExtractOff /\ MultiOff
    /\ RestOff

IsValidUrlCall ==
    /\ uv.pc = "call"
    /\ uv' = [uv EXCEPT !.pc = "ret",
                        !.result = is_valid_url(uv.url, uv.base_url)]
    /\ UNCHANGED <<crawlVars, ck, mg, pm, ex, cm, restVars>>

UrlNext == IsValidUrlCall

SpecUrl == UrlInit /\ [][UrlNext]_vars

\* urlparse(url).path: what follows the authority part up to "?" or "#"
UrlPath(url) ==
    LET from == IF StartsWith(url, Scheme)
                THEN FirstIn(url, 4, {"/", "?", "#"}) ELSE 1
    IN  SubSeq(url, from, FirstIn(url, from, {"?", "#"}) - 1)

\* the scope rule as C6 states it
InScopeAsClaimed(url, base_url) ==
    IF url = <<>> THEN FALSE
    ELSE IF \E ext \in skip_extensions : EndsWith(Lower(UrlPath(url)), ext)
    THEN FALSE
    ELSE IF HasSkipPattern(url) THEN FALSE
    ELSE SameDomain(Netloc(url), Netloc(base_url))

\* C6: is_valid_url is false for an empty candidate, false when the
\* candidate's lowercase path ends with a blocked extension, false when it
\* contains a blocked path segment, and otherwise true exactly when the
\* candidate's host is the origin's host or a subdomain of it.
C6_ScopeRule ==
    uv.pc = "ret" => uv.result = InScopeAsClaimed(uv.url, uv.base_url)


-----------------------------------------------------------------------------
(* ModuleExtractor._chunk_text.  A text is a sequence of characters; token *)
(* counts are kept in thirds of a token, so that len(word) / 0.75 is the   *)
(* integer 4 * len(word) and the limit max_tokens is 3 * max_tokens        *)
(* thirds.                                                                  *)

Whitespace == {" ", "\n"}
TextChars == {" ", "\n", "a", "b"}

\* text.split(): the maximal runs of non-whitespace characters, in order
RECURSIVE SplitFrom(_, _, _, _)
SplitFrom(text, i, word, words) ==
    IF i > Len(text)
    THEN IF word = <<>> THEN words ELSE Append(words, word)
    ELSE IF text[i] \in Whitespace
    THEN SplitFrom(text, i + 1, <<>>,
                   IF word = <<>> THEN words ELSE Append(words, word))
    ELSE SplitFrom(text, i + 1, Append(word, text[i]), words)

Split(text) == SplitFrom(text, 1, <<>>, <<>>)

\* ' '.join(words)
RECURSIVE Join(_)
Join(words) ==
    IF words = <<>> THEN <<>>
    ELSE IF Len(words) = 1 THEN words[1]
    ELSE words[1] \o <<" ">> \o Join(Tail(words))

\* extractor.py:32, in thirds
WordTokens(word) == 4 * Len(word)

\* (mutant) a chunk is closed as soon as it reaches the limit
Overflows_AtLimit(current_length, word_tokens, max_tokens) ==
    current_length + word_tokens >= 3 * max_tokens

\* extractor.py:34, first conjunct
Overflows(current_length, word_tokens, max_tokens) ==
    current_length + word_tokens > 3 * max_tokens

\* (mutant) the words still held when the loop ends are dropped
FinalChunks_NoFlush(chunks, current_chunk) == chunks

\* extractor.py:42-45
FinalChunks(chunks, current_chunk) ==
    IF current_chunk # <<>> THEN Append(chunks, Join(current_chunk))
    ELSE chunks

\* the loop of extractor.py:30-40
RECURSIVE ChunkLoop(_, _, _, _, _)
ChunkLoop(words, chunks, current_chunk, current_length, max_tokens) ==
    IF words = <<>> THEN FinalChunks(chunks, current_chunk)
    ELSE LET word == Head(words)
             word_tokens == WordTokens(word)
         IN  IF Overflows(current_length, word_tokens, max_tokens)
                /\ current_chunk # <<>>
             THEN ChunkLoop(Tail(words), Append(chunks, Join(current_chunk)),
                            <<word>>, word_tokens, max_tokens)
             ELSE ChunkLoop(Tail(words), chunks, Append(current_chunk, word),
                            current_length + word_tokens, max_tokens)

chunk_text(text, max_tokens) ==
    ChunkLoop(Split(text), <<>>, <<>>, 0, max_tokens)

ChunkInit ==
    /\ ck \in [pc : {"call"}, text : SeqsUpTo(TextChars, MaxTextLen),
               max_tokens : 0..MaxTokensBound, chunks : {<<>>}]
    /\ CrawlOff /\ UrlOff /\ MergeOff /\ IdentifyOff /\ ExtractOff /\ MultiOff
    /\ RestOff

ChunkTextCall ==
    /\ ck.pc = "call"
    /\ ck' = [ck EXCEPT !.pc = "ret",
                        !.chunks = chunk_text(ck.text, ck.max_tokens)]
    /\ UNCHANGED <<crawlVars, uv, mg, pm, ex, cm, restVars>>

ChunkNext == ChunkTextCall

SpecChunk == ChunkInit /\ [][ChunkNext]_vars

\* the words of the chunks, in order across the chunks
RECURSIVE WordsOf(_)
WordsOf(chunks) ==
    IF chunks = <<>> THEN <<>>
    ELSE Split(Head(chunks)) \o WordsOf(Tail(chunks))

\* the token total of a chunk, in thirds
RECURSIVE TotalTokens(_)
TotalTokens(words) ==
    IF words = <<>> THEN 0
    ELSE WordTokens(Head(words)) + TotalTokens(Tail(words))

\* C7: the words of the returned chunks, in order across the chunks, are
\* the whitespace-delimited words of the input, and no chunk is empty.
C7_ChunkRoundTrip ==
    ck.pc = "ret" =>
        /\ WordsOf(ck.chunks) = Split(ck.text)
        /\ \A i \in DOMAIN ck.chunks : ck.chunks[i] # <<>>

\* C7 witness: a text with repeated whitespace is cut into several chunks,
\* one of them of several words.
C7_Witness ==
    /\ ck.pc = "ret"
    /\ Len(ck.chunks) >= 2
    /\ \E i \in DOMAIN ck.chunks : Len(Split(ck.chunks[i])) >= 2
    /\ \E i \in 1..(Len(ck.text) - 1) :
          ck.text[i] \in Whitespace /\ ck.text[i + 1] \in Whitespace

-----------------------------------------------------------------------------
(* ModuleExtractor._merge_module_results and ._merge_modules.  A result is *)
(* the dict {"module", "Description", "Submodules"} with string            *)
(* descriptions.                                                            *)

ModuleNames == {"m1", "m2"}
SubNames == {"s1", "s2"}
Descs == SeqsUpTo({"x"}, MaxDescLen)

SubmoduleMaps == UNION {[D -> Descs] : D \in SUBSET SubNames}

Results == [module : ModuleNames, Description : Descs,
            Submodules : SubmoduleMaps]

\* (mutant) the shorter description is kept
LongerDescription_Shorter(merged_desc, desc) ==
    IF Len(desc) < Len(merged_desc) THEN desc ELSE merged_desc

\* extractor.py:747-748 and 756-757: the new description replaces the kept
\* one when it is strictly longer
LongerDescription(merged_desc, desc) ==
    IF Len(desc) > Len(merged_desc) THEN desc ELSE merged_desc

\* (mutant) the descriptions of the chunks are joined
MergedDescription_Joined(merged_desc, desc) == merged_desc \o desc

\* extractor.py:747-748
MergedDescription(merged_desc, desc) == LongerDescription(merged_desc, desc)

\* extractor.py:751-757: the loop over result["Submodules"].items()
MergedSubmodules(merged_subs, subs) ==
    [n \in DOMAIN merged_subs \cup DOMAIN subs |->
        IF n \notin DOMAIN merged_subs THEN subs[n]
        ELSE IF n \in DOMAIN subs
        THEN LongerDescription(merged_subs[n], subs[n])
        ELSE merged_subs[n]]

\* the body of the loop of extractor.py:745-757
MergeResult(merged, result) ==
    [module      |-> merged.module,
     Description |-> MergedDescription(merged.Description, result.Description),
     Submodules  |-> MergedSubmodules(merged.Submodules, result.Submodules)]

RECURSIVE MergeResultsFrom(_, _)
MergeResultsFrom(merged, rest) ==
    IF rest = <<>> THEN merged
    ELSE MergeResultsFrom(MergeResult(merged, Head(rest)), Tail(rest))

merge_module_results(module_results) ==
    IF module_results = <<>> THEN "None"
    ELSE MergeResultsFrom(module_results[1], Tail(module_results))

\* extractor.py:772-783: module_item merged into the entry of its name
MergeExisting(existing_module, module_item) ==
    [module      |-> existing_module.module,
     Description |-> LongerDescription(existing_module.Description,
                                       module_item.Description),
     Submodules  |-> MergedSubmodules(existing_module.Submodules,
                                      module_item.Submodules)]

\* extractor.py:766-783 for one module_item; module_dict is kept as the
\* sequence of its values, in insertion order
MergeIntoDict(module_dict, module_item) ==
    IF \E i \in DOMAIN module_dict : module_dict[i].module = module_item.module
    THEN [i \in DOMAIN module_dict |->
            IF module_dict[i].module = module_item.module
            THEN MergeExisting(module_dict[i], module_item)
            ELSE module_dict[i]]
    ELSE Append(module_dict, module_item)

RECURSIVE MergeModulesFrom(_, _)
MergeModulesFrom(module_dict, rest) ==
    IF rest = <<>> THEN module_dict
    ELSE MergeModulesFrom(MergeIntoDict(module_dict, Head(rest)), Tail(rest))

merge_modules(all_modules) == MergeModulesFrom(<<>>, all_modules)

MergeInit ==
    /\ mg \in [pc : {"call"}, results : SeqsUpTo(Results, MaxResults),
               merged : {"None"}, modules : {<<>>}]
    /\ CrawlOff /\ UrlOff /\ ChunkOff /\ IdentifyOff /\ ExtractOff /\ MultiOff
    /\ RestOff

\* _merge_module_results(results)
MergeModuleResultsCall ==
    /\ mg.pc = "call"
    /\ mg' = [mg EXCEPT !.pc = "merged",
                        !.merged = merge_module_results(mg.results)]
    /\ UNCHANGED <<crawlVars, uv, ck, pm, ex, cm, restVars>>

\* _merge_modules(results)
MergeModulesCall ==
    /\ mg.pc = "call"
    /\ mg' = [mg EXCEPT !.pc = "deduped",
                        !.modules = merge_modules(mg.results)]
    /\ UNCHANGED <<crawlVars, uv, ck, pm, ex, cm, restVars>>

MergeNext == MergeModuleResultsCall \/ MergeModulesCall

SpecMerge == MergeInit /\ [][MergeNext]_vars

\* m is what longest-description-wins makes of the results rs
LongestWins(m, rs) ==
    /\ \E i \in DOMAIN rs : m.Description = rs[i].Description
    /\ \A i \in DOMAIN rs : Len(rs[i].Description) <= Len(m.Description)
    /\ DOMAIN m.Submodules = UNION {DOMAIN rs[i].Submodules : i \in DOMAIN rs}
    /\ \A n \in DOMAIN m.Submodules :
          /\ \E i \in DOMAIN rs : /\ n \in DOMAIN rs[i].Submodules
                                  /\ m.Submodules[n] = rs[i].Submodules[n]
          /\ \A i \in DOMAIN rs :
                n \in DOMAIN rs[i].Submodules =>
                    Len(rs[i].Submodules[n]) <= Len(m.Submodules[n])

\* the results of rs that carry the module name
RECURSIVE Named(_, _)
Named(rs, name) ==
    IF rs = <<>> THEN <<>>
    ELSE IF Head(rs).module = name
    THEN <<Head(rs)>> \o Named(Tail(rs), name)
    ELSE Named(Tail(rs), name)

\* C9: after _merge_module_results over a non-empty list, and after
\* _merge_modules for the results sharing a module name, the description
\* is an input description of maximal length, the submodule names are the
\* union of the inputs' names, and each submodule description is one of
\* maximal length among the inputs' descriptions for that name.
C9_LongestDescriptionWins ==
    /\ mg.pc = "merged" /\ mg.results # <<>> =>
          LongestWins(mg.merged, mg.results)
    /\ mg.pc = "deduped" =>
          \A k \in DOMAIN mg.modules :
              LongestWins(mg.modules[k],
                          Named(mg.results, mg.modules[k].module))

\* C9 witness: two results of one module name, the second with the longer
\* description and a longer description for a shared submodule, merged by
\* _merge_modules.
C9_Witness ==
    /\ mg.pc = "deduped"
    /\ Len(mg.results) = 2 /\ Len(mg.modules) = 1
    /\ Len(mg.results[2].Description) > Len(mg.results[1].Description)
    /\ \E n \in DOMAIN mg.results[1].Submodules
               \cap DOMAIN mg.results[2].Submodules :
          Len(mg.results[2].Submodules[n]) > Len(mg.results[1].Submodules[n])

\* C10: merging a list of chunk results followed by itself gives the same
\* module as merging the list alone: same name, description and submodule
\* map.
C10_MergeIdempotent ==
    mg.pc = "merged" =>
        merge_module_results(mg.results \o mg.results) = mg.merged

\* C10 witness: a merge of two different results that changed the first
\* one.
C10_Witness ==
    /\ mg.pc = "merged"
    /\ Len(mg.results) = 2
    /\ mg.results[1] # mg.results[2]
    /\ mg.merged # mg.results[1]
    /\ mg.merged # mg.results[2]


-----------------------------------------------------------------------------
(* ModuleExtractor._identify_potential_modules.  A dict whose order of     *)
(* insertion matters is a sequence of [key, value] entries.                 *)

ODictKeys(d) == {d[i].key : i \in DOMAIN d}

ODictGet(d, k) == d[CHOOSE i \in DOMAIN d : d[i].key = k].value

\* d[k] = v: a present key keeps its place, a new key goes last
ODictSet(d, k, v) ==
    IF k \in ODictKeys(d)
    THEN [i \in DOMAIN d |->
            IF d[i].key = k THEN [key |-> k, value |-> v] ELSE d[i]]
    ELSE Append(d, [key |-> k, value |-> v])

\* hierarchy.get(url, [])
ChildUrls(hierarchy, url) ==
    IF url \in DOMAIN hierarchy THEN hierarchy[url] ELSE <<>>

\* extractor.py:56-61
RootUrls(hierarchy) ==
    DOMAIN hierarchy \ UNION {Range(hierarchy[k]) : k \in DOMAIN hierarchy}

\* (mutant) a child that has a depth already keeps it
Relaxes_FirstVisitOnly(child, url_depth, depth) ==
    child \notin ODictKeys(url_depth)

\* extractor.py:125
Relaxes(child, url_depth, depth) ==
    \/ child \notin ODictKeys(url_depth)
    \/ depth + 1 < ODictGet(url_depth, child)

\* _calculate_depth(url, hierarchy, url_depth, depth), the loop over the
\* children of url still to be looked at
RECURSIVE CalculateDepth(_, _, _, _)
CalculateDepth(children, hierarchy, url_depth, depth) ==
    IF children = <<>> THEN url_depth
    ELSE LET child == Head(children) IN
         IF Relaxes(child, url_depth, depth)
         THEN CalculateDepth(
                  Tail(children), hierarchy,
                  CalculateDepth(ChildUrls(hierarchy, child), hierarchy,
                                 ODictSet(url_depth, child, depth + 1),
                                 depth + 1),
                  depth)
         ELSE CalculateDepth(Tail(children), hierarchy, url_depth, depth)

\* extractor.py:64-67, the roots taken in the order roots
RECURSIVE UrlDepthFrom(_, _, _)
UrlDepthFrom(roots, hierarchy, url_depth) ==
    IF roots = <<>> THEN url_depth
    ELSE UrlDepthFrom(
             Tail(roots), hierarchy,
             CalculateDepth(ChildUrls(hierarchy, Head(roots)), hierarchy,
                            ODictSet(url_depth, Head(roots), 0), 0))

\* urls_by_depth[depth] (extractor.py:70-74), <<>> when the key is missing
RECURSIVE UrlsAtDepth(_, _)
UrlsAtDepth(url_depth, depth) ==
    IF url_depth = <<>> THEN <<>>
    ELSE (IF Head(url_depth).value = depth THEN <<Head(url_depth).key>>
          ELSE <<>>) \o UrlsAtDepth(Tail(url_depth), depth)

HierarchyCandidate(url, hierarchy, titles) ==
    [title |-> titles[url], child_urls |-> ChildUrls(hierarchy, url),
     url |-> "", heading_level |-> 0, source |-> "hierarchy"]

\* extractor.py:79 and 89
HasTitle(url, titles) == url \in DOMAIN titles

\* the loops of extractor.py:78-84 and 88-94
RECURSIVE AddHierarchyModules(_, _, _, _)
AddHierarchyModules(urls, hierarchy, titles, potential_modules) ==
    IF urls = <<>> THEN potential_modules
    ELSE AddHierarchyModules(
             Tail(urls), hierarchy, titles,
             IF HasTitle(Head(urls), titles)
             THEN ODictSet(potential_modules, <<Head(urls)>>,
                           HierarchyCandidate(Head(urls), hierarchy, titles))
             ELSE potential_modules)

\* (mutant) the roots are used only when no page is at depth 1
UseRootUrls_NoFirstLevel(potential_modules, url_depth) ==
    UrlsAtDepth(url_depth, 1) = <<>>

\* extractor.py:87: `not potential_modules` (the loop over a missing depth
\* 0 adds nothing)
UseRootUrls(potential_modules, url_depth) == potential_modules = <<>>

\* APPROACH 1, extractor.py:54-94
HierarchyPass(hierarchy, titles, roots) ==
    LET url_depth == UrlDepthFrom(roots, hierarchy, <<>>)
        first == AddHierarchyModules(UrlsAtDepth(url_depth, 1), hierarchy,
                                     titles, <<>>)
    IN  IF UseRootUrls(first, url_depth)
        THEN AddHierarchyModules(UrlsAtDepth(url_depth, 0), hierarchy,
                                 titles, <<>>)
        ELSE first

\* headings_by_level[level]
RECURSIVE LevelHeadings(_, _)
LevelHeadings(headings, level) ==
    IF headings = <<>> THEN <<>>
    ELSE (IF Head(headings).level = level THEN <<Head(headings)>> ELSE <<>>)
         \o LevelHeadings(Tail(headings), level)

\* extractor.py:111: f"{url}#{heading['id']}" or f"{url}#{heading['text']}"
HeadingModuleId(url, heading) ==
    <<url, "#", IF heading.id # "" THEN heading.id ELSE heading.text>>

\* the loop of extractor.py:110-117
RECURSIVE AddHeadingModules(_, _, _, _)
AddHeadingModules(level_headings, url, level, potential_modules) ==
    IF level_headings = <<>> THEN potential_modules
    ELSE AddHeadingModules(
             Tail(level_headings), url, level,
             ODictSet(potential_modules,
                      HeadingModuleId(url, Head(level_headings)),
                      [title |-> Head(level_headings).text,
                       child_urls |-> <<>>, url |-> url,
                       heading_level |-> level, source |-> "heading"]))

\* extractor.py:108
EnoughHeadings(level_headings) == Len(level_headings) >= 2

\* the loop of extractor.py:106-118 from level on
RECURSIVE HeadingLevelScan(_, _, _, _)
HeadingLevelScan(level, headings, url, potential_modules) ==
    IF level > 3 THEN potential_modules
    ELSE IF EnoughHeadings(LevelHeadings(headings, level))
    THEN AddHeadingModules(LevelHeadings(headings, level), url, level,
                           potential_modules)
    ELSE HeadingLevelScan(level + 1, headings, url, potential_modules)

\* APPROACH 2, extractor.py:98-118; structure is the dict in its order
RECURSIVE HeadingPass(_, _)
HeadingPass(structure, potential_modules) ==
    IF structure = <<>> THEN potential_modules
    ELSE HeadingPass(
             Tail(structure),
             IF Head(structure).value.headings # <<>>
             THEN HeadingLevelScan(1, Head(structure).value.headings,
                                   Head(structure).key, potential_modules)
             ELSE potential_modules)

identify_potential_modules(hierarchy, titles, structure, roots) ==
    HeadingPass(structure, HierarchyPass(hierarchy, titles, roots))


-----------------------------------------------------------------------------
(* Completion replies.  A reply is a text of tokens; a JSON value is an    *)
(* item: an object with some of the keys module, Description, Submodules,   *)
(* or a string.  A field carries its JSON type in t.                         *)

ModuleKeys == {"module", "Description", "Submodules"}

StrValue(desc) == [t |-> "str", v |-> desc]
NumValue == [t |-> "num", v |-> <<>>]
MapValue(subs) == [t |-> "map", v |-> subs]
ListValue == [t |-> "list", v |-> EmptyMap]

\* a JSON object; a key outside keys is absent and its field is a filler
JsonObject(keys, module, description, submodules) ==
    [kind |-> "obj", keys |-> keys,
     module |-> IF "module" \in keys THEN module ELSE "",
     Description |-> IF "Description" \in keys THEN description
                     ELSE StrValue(<<>>),
     Submodules |-> IF "Submodules" \in keys THEN submodules
                    ELSE MapValue(EmptyMap)]

\* the JSON string "a"
JsonString == [kind |-> "str", keys |-> {}, module |-> "",
               Description |-> StrValue(<<>>),
               Submodules |-> MapValue(EmptyMap)]

\* "No description available"
NoDescription ==
    <<"N", "o", " ", "d", "e", "s", "c", "r", "i", "p", "t", "i", "o", "n",
      " ", "a", "v", "a", "i", "l", "a", "b", "l", "e">>

\* extractor.py:561-565, 570-574, 577-581
Placeholder(module_title) ==
    JsonObject(ModuleKeys, module_title, StrValue(NoDescription),
               MapValue(EmptyMap))

\* the objects a reply may carry: three of the expected shape, then one
\* without any key, one whose Description is a number, one whose Submodules
\* is a list, one without Description
ReplyObjects ==
    { JsonObject(ModuleKeys, "m1", StrValue(<<"x">>),
                 MapValue([n \in {"s1"} |-> <<"x">>])),
      JsonObject(ModuleKeys, "m1", StrValue(<<>>),
                 MapValue([n \in {"s1", "s2"} |-> <<>>])),
      JsonObject(ModuleKeys, "m2", StrValue(<<"x">>), MapValue(EmptyMap)),
      JsonObject({}, "", NumValue, ListValue),
      JsonObject(ModuleKeys, "m1", NumValue, MapValue(EmptyMap)),
      JsonObject(ModuleKeys, "m1", StrValue(<<"x">>), ListValue),
      JsonObject({"module", "Submodules"}, "m2", NumValue,
                 MapValue([n \in {"s1"} |-> <<"x">>])) }

ReplyItems == ReplyObjects \cup {JsonString}

ReplyLists == SeqsUpTo(ReplyItems, 2)

\* json.dumps, as tokens
Quoted(str) == <<"\"">> \o str \o <<"\"">>

RECURSIVE DumpEntries(_, _)
DumpEntries(subs, names) ==
    IF names = {} THEN <<>>
    ELSE LET n == CHOOSE m \in names :
                     \A o \in names : o = m \/ <<m, o>> \in {<<"s1", "s2">>}
         IN  <<n, ":">> \o Quoted(subs[n])
             \o (IF names = {n} THEN <<>> ELSE <<",">>)
             \o DumpEntries(subs, names \ {n})

DumpField(value) ==
    CASE value.t = "str"  -> Quoted(value.v)
      [] value.t = "num"  -> <<"7">>
      [] value.t = "map"  -> <<"{">> \o DumpEntries(value.v, DOMAIN value.v)
                             \o <<"}">>
      [] value.t = "list" -> <<"[", "]">>

RECURSIVE DumpMembers(_, _)
DumpMembers(obj, keys) ==
    IF keys = <<>> THEN <<>>
    ELSE (IF Head(keys) \in obj.keys
          THEN <<Head(keys), ":">>
               \o (IF Head(keys) = "module" THEN <<"\"", obj.module, "\"">>
                   ELSE DumpField(obj[Head(keys)]))
               \o (IF \E i \in 2..Len(keys) : keys[i] \in obj.keys
                   THEN <<",">> ELSE <<>>)
          ELSE <<>>)
         \o DumpMembers(obj, Tail(keys))

DumpItem(item) ==
    IF item.kind = "str" THEN <<"\"", "a", "\"">>
    ELSE <<"{">> \o DumpMembers(item, <<"module", "Description", "Submodules">>)
         \o <<"}">>

RECURSIVE DumpItems(_)
DumpItems(items) ==
    IF items = <<>> THEN <<>>
    ELSE DumpItem(Head(items))
         \o (IF Len(items) > 1 THEN <<",">> ELSE <<>>)
         \o DumpItems(Tail(items))

DumpList(items) == <<"[">> \o DumpItems(items) \o <<"]">>

\* json.loads(json_str): the value json_str is the text of, if it is the
\* text of one; ok = FALSE stands for JSONDecodeError
JsonDecodeError == [ok |-> FALSE, kind |-> "", item |-> JsonString,
                    items |-> <<>>]

\* the JSON texts with the values they are the texts of
JsonTexts ==
    {[text |-> DumpItem(o), kind |-> "item", item |-> o, items |-> <<>>] :
        o \in ReplyItems}
    \cup {[text |-> DumpList(l), kind |-> "list", item |-> JsonString,
           items |-> l] : l \in ReplyLists}

json_loads(json_str) ==
    IF \E e \in JsonTexts : e.text = json_str
    THEN LET e == CHOOSE f \in JsonTexts : f.text = json_str
         IN  [ok |-> TRUE, kind |-> e.kind, item |-> e.item,
              items |-> e.items]
    ELSE JsonDecodeError

\* str.find and str.rfind for a one-character needle, 0-based, -1 if none
Find(text, ch) ==
    IF \E i \in DOMAIN text : text[i] = ch
    THEN (CHOOSE i \in DOMAIN text :
             text[i] = ch /\ \A j \in 1..(i - 1) : text[j] # ch) - 1
    ELSE -1

RFind(text, ch) ==
    IF \E i \in DOMAIN text : text[i] = ch
    THEN (CHOOSE i \in DOMAIN text :
             text[i] = ch /\ \A j \in (i + 1)..Len(text) : text[j] # ch) - 1
    ELSE -1

\* result_text[json_start:json_end] for 0 <= json_start < json_end
Slice(text, json_start, json_end) == SubSeq(text, json_start + 1, json_end)

\* the texts the completion may answer with
ProseTexts ==
    { <<"Sorry">>, <<"{", "Sorry">>, <<"}", "Sorry", "{">>,
      <<"{", "Sorry", "}">>, <<"[", "Sorry", "]">>, <<"]", "[">> }

\* the items of the lists a reply may carry
ListItems ==
    {o \in ReplyObjects : o.keys = ModuleKeys /\ o.Submodules.t = "map"
                          /\ o.Submodules.v \in {EmptyMap,
                                                 [n \in {"s1"} |-> <<"x">>]}}
    \cup {JsonString}

ReplyTexts ==
    ProseTexts
    \cup {DumpItem(o) : o \in ReplyObjects}
    \cup {<<"Here", ":">> \o DumpItem(o) \o suffix :
             o \in {ob \in ReplyObjects : ob.module = "m2"},
             suffix \in {<<".">>, <<"}">>}}
    \cup {<<"Here", ":">> \o DumpList(l) \o <<".">> :
             l \in SeqsUpTo(ListItems, 2)}

\* the completion call: it raises, or answers with a text
Completions ==
    {[failed |-> TRUE, text |-> <<>>]}
    \cup [failed : {FALSE}, text : ReplyTexts]


-----------------------------------------------------------------------------
(* ModuleExtractor._extract_module_with_submodules and ._extract_from_chunk *)
(* after the completion call.  A call returns [raised, value]: raised tells  *)
(* that an exception left the function.                                       *)

\* extractor.py:555 and 720
HasJsonSpan(json_start, json_end) == json_start >= 0 /\ json_end > json_start

\* (mutant) the decoding error leaves the function
DecodeErrorResult_Raises(module_title) ==
    [raised |-> TRUE, value |-> Placeholder(module_title)]

\* extractor.py:567-574
DecodeErrorResult(module_title) ==
    [raised |-> FALSE, value |-> Placeholder(module_title)]

\* extractor.py:538-581
extract_module_with_submodules(module_title, completion) ==
    IF completion.failed
    THEN [raised |-> TRUE, value |-> Placeholder(module_title)]
    ELSE LET result_text == completion.text
             json_start == Find(result_text, "{")
             json_end == RFind(result_text, "}") + 1
         IN  IF HasJsonSpan(json_start, json_end)
             THEN LET module == json_loads(Slice(result_text, json_start,
                                                 json_end))
                  IN  IF module.ok
                      THEN [raised |-> FALSE, value |-> module.item]
                      ELSE DecodeErrorResult(module_title)
             ELSE [raised |-> FALSE, value |-> Placeholder(module_title)]

\* extractor.py:703-734
extract_from_chunk(completion) ==
    IF completion.failed THEN [raised |-> TRUE, value |-> <<>>]
    ELSE LET result_text == completion.text
             json_start == Find(result_text, "[")
             json_end == RFind(result_text, "]") + 1
         IN  IF HasJsonSpan(json_start, json_end)
             THEN LET modules == json_loads(Slice(result_text, json_start,
                                                  json_end))
                  IN  IF modules.ok
                      THEN [raised |-> FALSE, value |-> modules.items]
                      ELSE [raised |-> FALSE, value |-> <<>>]
             ELSE [raised |-> FALSE, value |-> <<>>]

-----------------------------------------------------------------------------
(* The two merges on parsed replies of any shape: what Python does with a  *)
(* missing key, a number where a string is expected, a list where a dict   *)
(* is expected.                                                              *)

\* obj.get("Description", "") and obj.get("Submodules", {})
DescriptionOf(obj) ==
    IF "Description" \in obj.keys THEN obj.Description.v ELSE <<>>

SubmodulesOf(obj) ==
    IF "Submodules" \in obj.keys THEN obj.Submodules.v ELSE EmptyMap

PlainModule(obj) ==
    [module |-> obj.module, Description |-> DescriptionOf(obj),
     Submodules |-> SubmodulesOf(obj)]

\* len(x) of a number raises TypeError
LenRaises(obj) == "Description" \in obj.keys /\ obj.Description.t = "num"

\* .items() of a list raises AttributeError
ItemsRaises(obj) == "Submodules" \in obj.keys /\ obj.Submodules.t = "list"

\* merged["Submodules"][subname] = subdesc raises TypeError on a list
StoreRaises(merged, result) ==
    /\ SubmodulesOf(result) # EmptyMap
    /\ "Submodules" \in merged.keys /\ merged.Submodules.t = "list"

\* the fields of obj as the merge leaves them, given the plain result m
Remerged(obj, m) ==
    [obj EXCEPT
        !.keys = @ \cup (IF m.Description # DescriptionOf(obj)
                         THEN {"Description"} ELSE {})
                   \cup (IF m.Submodules # SubmodulesOf(obj)
                         THEN {"Submodules"} ELSE {}),
        !.Description = IF m.Description # DescriptionOf(obj)
                        THEN StrValue(m.Description) ELSE @,
        !.Submodules = IF m.Submodules # SubmodulesOf(obj)
                       THEN MapValue(m.Submodules) ELSE @]

\* the body of the loop of extractor.py:745-757 on objects of any shape
MergeAnyResult(merged, result) ==
    IF LenRaises(result) \/ LenRaises(merged) \/ ItemsRaises(result)
       \/ StoreRaises(merged, result)
    THEN [raised |-> TRUE, value |-> merged]
    ELSE [raised |-> FALSE,
          value |-> Remerged(merged, MergeResult(PlainModule(merged),
                                                 PlainModule(result)))]

RECURSIVE MergeAnyResultsFrom(_, _)
MergeAnyResultsFrom(acc, rest) ==
    IF rest = <<>> \/ acc.raised THEN acc
    ELSE MergeAnyResultsFrom(MergeAnyResult(acc.value, Head(rest)), Tail(rest))

\* _merge_module_results on a non-empty list, extractor.py:742-759
merge_any_module_results(module_results) ==
    MergeAnyResultsFrom([raised |-> FALSE, value |-> module_results[1]],
                        Tail(module_results))

\* module_item["module"] raises on a string item and on a missing key
NameRaises(module_item) ==
    module_item.kind = "str" \/ "module" \notin module_item.keys

\* extractor.py:775-783 raises: a missing Description or Submodules key, a
\* number for a description, a list for the submodules
ExistingRaises(existing_module, module_item) ==
    \/ "Description" \notin module_item.keys
    \/ "Description" \notin existing_module.keys
    \/ LenRaises(module_item) \/ LenRaises(existing_module)
    \/ "Submodules" \notin module_item.keys
    \/ ItemsRaises(module_item)
    \/ /\ SubmodulesOf(module_item) # EmptyMap
       /\ \/ "Submodules" \notin existing_module.keys
          \/ existing_module.Submodules.t = "list"

\* extractor.py:765-783 for one module_item of any shape
MergeAnyIntoDict(module_dict, module_item) ==
    IF NameRaises(module_item) THEN [raised |-> TRUE, value |-> module_dict]
    ELSE IF \A i \in DOMAIN module_dict :
                module_dict[i].module # module_item.module
    THEN [raised |-> FALSE, value |-> Append(module_dict, module_item)]
    ELSE LET i == CHOOSE j \in DOMAIN module_dict :
                      module_dict[j].module = module_item.module
         IN  IF ExistingRaises(module_dict[i], module_item)
             THEN [raised |-> TRUE, value |-> module_dict]
             ELSE [raised |-> FALSE,
                   value |-> [module_dict EXCEPT
                       ![i] = Remerged(@, MergeExisting(
                                  PlainModule(@), PlainModule(module_item)))]]

RECURSIVE MergeAnyModulesFrom(_, _)
MergeAnyModulesFrom(acc, rest) ==
    IF rest = <<>> \/ acc.raised THEN acc
    ELSE MergeAnyModulesFrom(MergeAnyIntoDict(acc.value, Head(rest)),
                             Tail(rest))

\* _merge_modules, extractor.py:761-785
merge_any_modules(all_modules) ==
    MergeAnyModulesFrom([raised |-> FALSE, value |-> <<>>], all_modules)


-----------------------------------------------------------------------------
(* ModuleExtractor.extract_modules *)

\* the orders in which a set may be iterated
Orders(S) == {q \in [1..Cardinality(S) -> S] : Range(q) = S}

\* _chunk_text's default max_tokens
DefaultMaxTokens == 6000

\* _group_urls_by_module, extractor.py:129-197: modules_content is keyed by
\* the candidate's title; of a module's data only source_type is kept
RECURSIVE group_urls_by_module(_, _)
group_urls_by_module(potential_modules, modules_content) ==
    IF potential_modules = <<>> THEN modules_content
    ELSE group_urls_by_module(
             Tail(potential_modules),
             ODictSet(modules_content, Head(potential_modules).value.title,
                      [source_type |-> Head(potential_modules).value.source]))

\* len(content_chunks) for a module's content (extractor.py:374): the text
\* starts with "MODULE: <title>", so there is at least one chunk
ModuleChunkCounts == 1..MaxChunks

\* len(content_chunks) for the whole corpus (extractor.py:475-481): the
\* join over an empty content map is the empty text
CorpusChunkCounts(contents) ==
    IF contents = EmptyMap
    THEN {Len(chunk_text(<<>>, DefaultMaxTokens))}
    ELSE 1..MaxChunks

\* (mutant) a failed chunk ends the loop over the chunks
ChunksAfterFailure_Abort(chunks_left) == 0

\* extractor.py:392-393 and 498-499: the loop goes on with the next chunk
ChunksAfterFailure(chunks_left) == chunks_left - 1

WellShaped(item) ==
    /\ item.kind = "obj" /\ item.keys = ModuleKeys
    /\ item.Description.t = "str" /\ item.Submodules.t = "map"

\* the crawl results handed to extract_modules
PageHeadings ==
    <<[level |-> 2, text |-> "Setup", id |-> ""],
      [level |-> 2, text |-> "Usage", id |-> ""]>>

ExtractInputs ==
    {r \in [content : {EmptyMap, [u \in {"p1"} |-> "text"]},
            hierarchy : {EmptyMap, [u \in {"p1"} |-> <<"p2", "p3">>]},
            titles : {EmptyMap,
                      [u \in {"p1", "p2", "p3"} |->
                          CASE u = "p1" -> "Home" [] u = "p2" -> "Setup"
                            [] OTHER -> "Usage"]},
            structure : {<<>>,
                         <<[key |-> "p1",
                            value |-> [headings |-> PageHeadings]]>>}] :
        r.hierarchy = EmptyMap \/ r.structure = <<>>}

\* the last completion call: whether the call failed or was answered, the
\* reply text, whether an exception left the extraction function, and
\* what it returned
NoCall == [kind |-> "none", title |-> "", text |-> <<>>, raised |-> FALSE,
           item |-> JsonString, items |-> <<>>]

CallKind(completion) == IF completion.failed THEN "failed" ELSE "reply"

ExtractInit ==
    /\ ex \in [pc : {"call"}, input : ExtractInputs, path : {""},
               todo : {<<>>}, title : {""}, chunks_left : {0},
               module_results : {<<>>}, all_modules : {<<>>},
               result : {<<>>}, calls : {0}, chunks : {0}, got : {{}},
               last : {NoCall}, shapes_ok : {TRUE}]
    /\ CrawlOff /\ UrlOff /\ ChunkOff /\ MergeOff /\ IdentifyOff /\ MultiOff
    /\ RestOff

\* extractor.py:338-352
ExtractStart ==
    /\ ex.pc = "call"
    /\ \E roots \in Orders(RootUrls(ex.input.hierarchy)) :
         LET potential_modules ==
                 identify_potential_modules(ex.input.hierarchy,
                                            ex.input.titles,
                                            ex.input.structure, roots)
         IN  IF potential_modules = <<>>
             THEN \E n \in CorpusChunkCounts(ex.input.content) :
                    ex' = [ex EXCEPT !.pc = "corpus", !.path = "corpus",
                                     !.chunks_left = n, !.chunks = n]
             ELSE ex' = [ex EXCEPT
                            !.pc = "module", !.path = "candidates",
                            !.todo = group_urls_by_module(potential_modules,
                                                          <<>>)]
    /\ UNCHANGED <<crawlVars, uv, ck, mg, pm, cm, restVars>>

\* extractor.py:357-376: the next module of modules_content
ModuleStart ==
    /\ ex.pc = "module" /\ ex.todo # <<>>
    /\ \E n \in ModuleChunkCounts :
         ex' = [ex EXCEPT !.pc = "chunk", !.title = Head(ex.todo).key,
                          !.todo = Tail(@), !.chunks_left = n,
                          !.chunks = @ + n, !.module_results = <<>>,
                          !.last = NoCall]
    /\ UNCHANGED <<crawlVars, uv, ck, mg, pm, cm, restVars>>

\* extractor.py:378-393: one chunk of the module
ChunkCall ==
    /\ ex.pc = "chunk" /\ ex.chunks_left > 0
    /\ \E completion \in Completions :
         LET chunk_result ==
                 extract_module_with_submodules(ex.title, completion)
         IN  IF chunk_result.raised
             THEN ex' = [ex EXCEPT
                     !.chunks_left = ChunksAfterFailure(@),
                     !.calls = @ + 1,
                     !.last = [NoCall EXCEPT !.kind = CallKind(completion),
                                             !.title = ex.title,
                                             !.text = completion.text,
                                             !.raised = TRUE]]
             ELSE ex' = [ex EXCEPT
                     !.chunks_left = @ - 1,
                     !.calls = @ + 1,
                     !.module_results = Append(@, chunk_result.value),
                     !.got = @ \cup {ex.title},
                     !.shapes_ok = @ /\ WellShaped(chunk_result.value),
                     !.last = [NoCall EXCEPT !.kind = CallKind(completion),
                                             !.title = ex.title,
                                             !.text = completion.text,
                                             !.item = chunk_result.value]]
    /\ UNCHANGED <<crawlVars, uv, ck, mg, pm, cm, restVars>>

\* extractor.py:395-398
ModuleEnd ==
    /\ ex.pc = "chunk" /\ ex.chunks_left = 0
    /\ IF ex.module_results = <<>>
       THEN ex' = [ex EXCEPT !.pc = "module", !.last = NoCall]
       ELSE LET merged_module == merge_any_module_results(ex.module_results)
            IN  IF merged_module.raised
                THEN ex' = [ex EXCEPT !.pc = "raised", !.last = NoCall]
                ELSE ex' = [ex EXCEPT
                               !.pc = "module", !.last = NoCall,
                               !.all_modules = Append(@, merged_module.value)]
    /\ UNCHANGED <<crawlVars, uv, ck, mg, pm, cm, restVars>>

\* extractor.py:400
ExtractReturn ==
    /\ ex.pc = "module" /\ ex.todo = <<>>
    /\ ex' = [ex EXCEPT !.pc = "done", !.result = ex.all_modules]
    /\ UNCHANGED <<crawlVars, uv, ck, mg, pm, cm, restVars>>

\* _extract_from_unstructured_content, extractor.py:487-499: one chunk
CorpusChunkCall ==
    /\ ex.pc = "corpus" /\ ex.chunks_left > 0
    /\ \E completion \in Completions :
         LET modules == extract_from_chunk(completion)
         IN  IF modules.raised
             THEN ex' = [ex EXCEPT
                     !.chunks_left = ChunksAfterFailure(@),
                     !.calls = @ + 1,
                     !.last = [NoCall EXCEPT !.kind = CallKind(completion),
                                             !.text = completion.text,
                                             !.raised = TRUE]]
             ELSE ex' = [ex EXCEPT
                     !.chunks_left = @ - 1,
                     !.calls = @ + 1,
                     !.all_modules = @ \o modules.value,
                     !.shapes_ok = @ /\ \A i \in DOMAIN modules.value :
                                           WellShaped(modules.value[i]),
                     !.last = [NoCall EXCEPT !.kind = CallKind(completion),
                                             !.text = completion.text,
                                             !.items = modules.value]]
    /\ UNCHANGED <<crawlVars, uv, ck, mg, pm, cm, restVars>>

\* _extract_from_unstructured_content, extractor.py:501-503
CorpusMerge ==
    /\ ex.pc = "corpus" /\ ex.chunks_left = 0
    /\ LET merged_modules == merge_any_modules(ex.all_modules)
       IN  IF merged_modules.raised
           THEN ex' = [ex EXCEPT !.pc = "raised", !.last = NoCall]
           ELSE ex' = [ex EXCEPT !.pc = "done", !.last = NoCall,
                                 !.result = merged_modules.value]
    /\ UNCHANGED <<crawlVars, uv, ck, mg, pm, cm, restVars>>

ExtractNext ==
    \/ ExtractStart
    \/ ModuleStart
    \/ ChunkCall
    \/ ModuleEnd
    \/ ExtractReturn
    \/ CorpusChunkCall
    \/ CorpusMerge

SpecExtract == ExtractInit /\ [][ExtractNext]_vars


-----------------------------------------------------------------------------
(* Properties of extract_modules *)

\* no two entries of modules carry the same module name
DistinctNames(modules) ==
    \A i, j \in DOMAIN modules :
        (i # j /\ "module" \in modules[i].keys /\ "module" \in modules[j].keys)
            => modules[i].module # modules[j].module

\* C11: the list returned by extract_modules never holds two entries with
\* the same module name, on the whole-corpus path and on the per-candidate
\* path, whatever names the replies carry.
C11_NamesDeduplicated == ex.pc = "done" => DistinctNames(ex.result)


\* the text has an opening bracket with a closing bracket after it
HasBracketPair(text, open, close) ==
    \E i, j \in DOMAIN text : i < j /\ text[i] = open /\ text[j] = close

\* from the first opening bracket to the last closing bracket
Bracketed(text, open, close) ==
    LET first == CHOOSE i \in DOMAIN text :
                     text[i] = open /\ \A k \in 1..(i - 1) : text[k] # open
        last == CHOOSE j \in DOMAIN text :
                    text[j] = close
                    /\ \A k \in (j + 1)..Len(text) : text[k] # close
    IN  SubSeq(text, first, last)

ValidJson(json_str) == \E e \in JsonTexts : e.text = json_str

Unparseable(text, open, close) ==
    \/ ~HasBracketPair(text, open, close)
    \/ ~ValidJson(Bracketed(text, open, close))

\* C12: a reply without a bracket pair, or whose bracketed part is not
\* valid JSON, gives the placeholder module of the candidate's title on the
\* per-module path and the empty list on the whole-corpus path; no
\* exception comes of it (an exception leaves extract_modules only after a
\* reply of an unexpected shape), and a run that returns has made the
\* completion call of every chunk of every module.
C12_UnparseableReplyIsolated ==
    /\ (ex.last.kind = "reply" /\ ex.path = "candidates"
        /\ Unparseable(ex.last.text, "{", "}"))
           => (~ex.last.raised /\ ex.last.item = Placeholder(ex.last.title))
    /\ (ex.last.kind = "reply" /\ ex.path = "corpus"
        /\ Unparseable(ex.last.text, "[", "]"))
           => (~ex.last.raised /\ ex.last.items = <<>>)
    /\ ex.pc = "raised" => ~ex.shapes_ok
    /\ ex.pc = "done" => (ex.calls = ex.chunks /\ ex.todo = <<>>)

\* C12 witness: the first candidate's only reply was unparseable and its
\* module is the placeholder; the second candidate was still processed and
\* has a parsed module; the run has returned.
C12_Witness ==
    /\ ex.pc = "done" /\ ex.path = "candidates" /\ ex.calls = 2
    /\ Len(ex.result) = 2
    /\ ex.result[1] = Placeholder("Setup")
    /\ ex.result[2] \in ReplyObjects


\* C13: whatever shape a parsed reply has, no exception leaves
\* extract_modules, on the per-candidate and on the whole-corpus path.
C13_ShapeNeverRaises == ex.pc # "raised"


\* C14: a completion call that fails adds nothing and stops nothing: the
\* step of the failed call leaves module_results and all_modules as they
\* were and raises nothing; a run that returns has made one completion
\* call per chunk of every module; on the per-candidate path the returned
\* list has one entry per module that got a result from at least one chunk;
\* an exception leaves extract_modules only after a reply of an unexpected
\* shape.
C14_FailedCallSkipped ==
    /\ [][(ex'.calls = ex.calls + 1 /\ ex'.last.kind = "failed") =>
            /\ ex'.module_results = ex.module_results
            /\ ex'.all_modules = ex.all_modules
            /\ ex'.got = ex.got
            /\ ex'.pc = ex.pc]_vars
    /\ [](ex.pc = "done" => ex.calls = ex.chunks)
    /\ []((ex.pc = "done" /\ ex.path = "candidates") =>
            Len(ex.result) = Cardinality(ex.got))
    /\ [](ex.pc = "raised" => ~ex.shapes_ok)

\* C14 witness: every call for the first candidate failed and it is absent
\* from the returned list; the second candidate, processed after it, is in
\* the list; each candidate had two chunks.
C14_Witness ==
    /\ ex.pc = "done" /\ ex.path = "candidates"
    /\ ex.chunks = 4 /\ ex.calls = 4
    /\ ex.got = {"Usage"} /\ Len(ex.result) = 1


\* C15: when the crawl result's content map is empty, extract_modules
\* finds no candidate, takes the unstructured path, makes no completion
\* call and returns the empty list without raising.
C15_EmptyContentEmptyResult ==
    ex.input.content = EmptyMap =>
        /\ ex.path # "candidates"
        /\ ex.calls = 0
        /\ ex.pc # "raised"
        /\ ex.pc = "done" => ex.result = <<>>


-----------------------------------------------------------------------------
(* A call of _identify_potential_modules on its own *)

PageUrls == {"p1", "p2", "p3"}

\* the lists of children: up to MaxChildren URLs, none twice
ChildLists ==
    {l \in SeqsUpTo(PageUrls, MaxChildren) :
        \A i, j \in DOMAIN l : i # j => l[i] # l[j]}

HierarchyInputs ==
    UNION {[K -> ChildLists] : K \in SUBSET PageUrls}

PageTitle(url) ==
    CASE url = "p1" -> "Home" [] url = "p2" -> "Setup" [] OTHER -> "Usage"

TitleInputs == {[u \in K |-> PageTitle(u)] : K \in SUBSET PageUrls}

\* the headings of a page as extract_document_structure lists them
\* (crawler.py:180-186): level by level
Headings ==
    [level : 1..4, text : {"A", "B"}, id : {"", "i"}]

HeadingLists ==
    {l \in SeqsUpTo(Headings, MaxHeadings) :
        \A i, j \in DOMAIN l : i < j => l[i].level <= l[j].level}

StructureInputs ==
    {<<[key |-> "p1", value |-> [headings |-> l]]>> : l \in HeadingLists}

IdentifyInputs ==
    [hierarchy : HierarchyInputs, titles : TitleInputs, structure : {<<>>}]
    \cup [hierarchy : {EmptyMap, [u \in {"p1"} |-> <<"p2">>]},
          titles : {[u \in PageUrls |-> PageTitle(u)]},
          structure : StructureInputs]

IdentifyInit ==
    /\ pm \in [pc : {"call"}, input : IdentifyInputs,
               potential_modules : {<<>>}]
    /\ CrawlOff /\ UrlOff /\ ChunkOff /\ MergeOff /\ ExtractOff /\ MultiOff
    /\ RestOff

IdentifyCall ==
    /\ pm.pc = "call"
    /\ \E roots \in Orders(RootUrls(pm.input.hierarchy)) :
         pm' = [pm EXCEPT
                  !.pc = "ret",
                  !.potential_modules =
                      identify_potential_modules(pm.input.hierarchy,
                                                 pm.input.titles,
                                                 pm.input.structure, roots)]
    /\ UNCHANGED <<crawlVars, uv, ck, mg, ex, cm, restVars>>

IdentifyNext == IdentifyCall

SpecIdentify == IdentifyInit /\ [][IdentifyNext]_vars

\* the candidates of one source, as a sequence of dict entries
RECURSIVE CandidatesFrom(_, _)
CandidatesFrom(potential_modules, source) ==
    IF potential_modules = <<>> THEN <<>>
    ELSE (IF Head(potential_modules).value.source = source
          THEN <<Head(potential_modules)>> ELSE <<>>)
         \o CandidatesFrom(Tail(potential_modules), source)

\* the first level among 1, 2, 3 with two headings or more, 0 if none
FirstModuleLevel(headings) ==
    IF \E l \in 1..3 : Len(LevelHeadings(headings, l)) >= 2
    THEN CHOOSE l \in 1..3 :
             /\ Len(LevelHeadings(headings, l)) >= 2
             /\ \A k \in 1..(l - 1) : Len(LevelHeadings(headings, k)) < 2
    ELSE 0

\* C16: the heading candidates of a page are the headings of its first
\* level among 1, 2, 3 that has two headings or more, one candidate per
\* heading, in order, and there is none if no such level exists.
C16_HeadingCandidates ==
    (pm.pc = "ret" /\ pm.input.structure # <<>>) =>
        LET headings == pm.input.structure[1].value.headings
            level == FirstModuleLevel(headings)
            expected == IF level = 0 THEN <<>>
                        ELSE LevelHeadings(headings, level)
            found == CandidatesFrom(pm.potential_modules, "heading")
        IN  /\ Len(found) = Len(expected)
            /\ \A i \in DOMAIN found :
                  /\ found[i].value.title = expected[i].text
                  /\ found[i].value.heading_level = level
                  /\ found[i].value.url = pm.input.structure[1].key

\* the pages one link away from a root (a root is nobody's child, so each
\* of these is at depth 1)
FirstLevelUrls(hierarchy) ==
    UNION {Range(hierarchy[r]) : r \in RootUrls(hierarchy)}

\* the hierarchy candidates are exactly the pages of urls, each carrying
\* its title and its list of child URLs
HierarchyCandidatesAre(urls) ==
    LET found == CandidatesFrom(pm.potential_modules, "hierarchy")
    IN  /\ ODictKeys(found) = {<<u>> : u \in urls}
        /\ \A u \in urls :
              /\ u \in DOMAIN pm.input.titles
              /\ ODictGet(found, <<u>>).title = pm.input.titles[u]
              /\ ODictGet(found, <<u>>).child_urls
                     = ChildUrls(pm.input.hierarchy, u)

-----------------------------------------------------------------------------
(* Crawler.crawl_multiple *)

MaxSeeds == 2           \* URLs handed to crawl_multiple
MultiMaxPages == 1      \* max_pages ranges over 1..MultiMaxPages there
MultiMaxDepth == 1      \* max_depth ranges over 0..MultiMaxDepth there

\* the dict crawl returns, crawler.py:390-397
CrawlResult ==
    [content |-> content_map, hierarchy |-> url_hierarchy,
     titles |-> url_titles, depths |-> url_depths,
     metadata |-> url_metadata, structure |-> url_structure]

\* crawler.py:404-411
EmptyResults ==
    [content |-> EmptyMap, hierarchy |-> EmptyMap, titles |-> EmptyMap,
     depths |-> EmptyMap, metadata |-> EmptyMap, structure |-> EmptyMap]

\* (mutant) an entry already collected is kept
DictUpdate_KeepFirst(d, other) ==
    [k \in DOMAIN d \cup DOMAIN other |->
        IF k \in DOMAIN d THEN d[k] ELSE other[k]]

\* d.update(other)
DictUpdate(d, other) ==
    [k \in DOMAIN d \cup DOMAIN other |->
        IF k \in DOMAIN other THEN other[k] ELSE d[k]]

\* crawler.py:415-420
UpdateResults(all_results, result) ==
    [content   |-> DictUpdate(all_results.content, result.content),
     hierarchy |-> DictUpdate(all_results.hierarchy, result.hierarchy),
     titles    |-> DictUpdate(all_results.titles, result.titles),
     depths    |-> DictUpdate(all_results.depths, result.depths),
     metadata  |-> DictUpdate(all_results.metadata, result.metadata),
     structure |-> DictUpdate(all_results.structure, result.structure)]

\* Crawler(max_pages, max_depth) and the call crawl_multiple(urls);
\* cm.results lists what each crawl returned, with its seed
MultiInit ==
    /\ CrawlerInit
    /\ max_pages <= MultiMaxPages
    /\ max_depth <= MultiMaxDepth
    /\ cm \in [pc : {"for"}, urls : SeqsUpTo(SeedUrls, MaxSeeds),
               index : {1}, all_results : {EmptyResults}, results : {<<>>}]
    /\ UrlOff /\ ChunkOff /\ MergeOff /\ IdentifyOff /\ ExtractOff
    /\ RestOff

\* the loop takes the next URL and calls crawl, crawler.py:413-414
MultiCrawlStart ==
    /\ cm.pc = "for"
    /\ cm.index <= Len(cm.urls)
    /\ CrawlBegin(cm.urls[cm.index])
    /\ cm' = [cm EXCEPT !.pc = "crawl"]
    /\ UNCHANGED <<uv, ck, mg, pm, ex, restVars>>

MultiCrawlStep ==
    /\ cm.pc = "crawl"
    /\ CrawlStep
    /\ UNCHANGED <<uv, ck, mg, pm, ex, cm, restVars>>

\* crawl returns and its six maps are merged in, crawler.py:414-420
MultiCrawlReturn ==
    /\ cm.pc = "crawl"
    /\ CrawlReturn
    /\ cm' = [cm EXCEPT
                !.pc = "for",
                !.index = @ + 1,
                !.all_results = UpdateResults(@, CrawlResult),
                !.results = Append(@, [seed |-> start_url,
                                       result |-> CrawlResult])]
    /\ UNCHANGED <<uv, ck, mg, pm, ex, restVars>>

\* crawler.py:422
MultiReturn ==
    /\ cm.pc = "for"
    /\ cm.index > Len(cm.urls)
    /\ cm' = [cm EXCEPT !.pc = "done"]
    /\ UNCHANGED <<crawlVars, uv, ck, mg, pm, ex, restVars>>

MultiNext ==
    \/ MultiCrawlStart
    \/ MultiCrawlStep
    \/ MultiCrawlReturn
    \/ MultiReturn

SpecMulti == MultiInit /\ [][MultiNext]_vars

ResultFields ==
    {"content", "hierarchy", "titles", "depths", "metadata", "structure"}

\* the crawls, among those returned so far, whose map f has the key k
SeedsWith(f, k) ==
    {i \in DOMAIN cm.results : k \in DOMAIN cm.results[i].result[f]}

LatestSeedWith(f, k) ==
    CHOOSE i \in SeedsWith(f, k) : \A j \in SeedsWith(f, k) : j <= i

\* all_results is the key-wise union of what the crawls returned, the
\* latest crawl winning
UnionLatestWins ==
    \A f \in ResultFields :
        /\ DOMAIN cm.all_results[f]
               = UNION {DOMAIN cm.results[i].result[f] : i \in DOMAIN cm.results}
        /\ \A k \in DOMAIN cm.all_results[f] :
              cm.all_results[f][k]
                  = cm.results[LatestSeedWith(f, k)].result[f][k]

\* one crawl per URL of the list, in the order of the list
OneCrawlPerSeed ==
    /\ Len(cm.results) = cm.index - 1
    /\ cm.index <= Len(cm.urls) + 1
    /\ \A i \in DOMAIN cm.results : cm.results[i].seed = cm.urls[i]
    /\ cm.pc = "done" => Len(cm.results) = Len(cm.urls)

\* the state a crawl of the list starts from holds nothing of the crawls
\* before it
StartsFresh ==
    (cm.pc = "for" /\ cm'.pc = "crawl") =>
        /\ visited_urls' = {}
        /\ queue' = << <<cm.urls[cm.index], 0>> >>
        /\ content_map' = EmptyMap
        /\ url_hierarchy' = EmptyMap
        /\ url_titles' = EmptyMap
        /\ url_depths' = Put(EmptyMap, cm.urls[cm.index], 0)
        /\ url_metadata' = EmptyMap
        /\ url_structure' = EmptyMap

\* C18: crawl_multiple(urls) runs crawl once per seed, in order, each from
\* freshly reset state, and what it returns is the key-wise union of the
\* six maps of the crawls, where for a key that several crawls produced
\* the entry of the latest of them stands.
C18_UnionLatestSeedWins ==
    /\ [](OneCrawlPerSeed /\ UnionLatestWins)
    /\ [][StartsFresh]_vars

\* two crawls recorded different depths for one URL, and the call returned
C18_Witness ==
    /\ cm.pc = "done"
    /\ Len(cm.results) = 2
    /\ \E k \in DOMAIN cm.results[1].result.depths
                  \cap DOMAIN cm.results[2].result.depths :
          cm.results[1].result.depths[k] # cm.results[2].result.depths[k]

-----------------------------------------------------------------------------
(* Depths and titles of a crawl *)

\* C19: the depth recorded for a URL when it is first discovered is never
\* overwritten: every URL waiting in the queue has in url_depths the depth
\* its queue entry carries (its distance from the seed).
C19_DepthOfQueueEntry ==
    \A i \in DOMAIN queue :
        /\ queue[i][1] \in DOMAIN url_depths
        /\ url_depths[queue[i][1]] = queue[i][2]

\* the <title> texts of the pages of the site
PageTitles == {"Page"}

\* C20: a title, once recorded, changes only by becoming the <title> of
\* its page: the anchor text of the first link to a URL is replaced by no
\* later anchor text and stays when the page has no <title>.
C20_AnchorTitleKept ==
    [][\A u \in DOMAIN url_titles :
          u \in DOMAIN url_titles' =>
              \/ url_titles'[u] = url_titles[u]
              \/ url_titles'[u] \in PageTitles]_vars

-----------------------------------------------------------------------------
(* The frontier of a crawl *)

Occurrences(x, s) == Cardinality({i \in DOMAIN s : s[i] = x})

\* t holds the elements of s, each as often as s does
SameElements(s, t) ==
    /\ Len(s) = Len(t)
    /\ \A x \in Range(s) \cup Range(t) : Occurrences(x, s) = Occurrences(x, t)

\* C24: no URL waits twice in the queue and no waiting URL is visited;
\* every dequeue therefore visits a new URL (the visited set grows by
\* exactly that one), and the branch for a dequeued URL that is visited
\* already leaves the visited set as it is.
C24_FrontierDistinctUnvisited ==
    /\ [](\A i, j \in DOMAIN queue : queue[i][1] = queue[j][1] => i = j)
    /\ [](QueueUrls(queue) \cap visited_urls = {})
    /\ [][(pc = "loop" /\ queue # <<>> /\ queue' # queue) =>
              /\ queue[1][1] \notin visited_urls
              /\ visited_urls' = visited_urls \cup {queue[1][1]}
              /\ Cardinality(visited_urls') = Cardinality(visited_urls) + 1]_vars
    /\ [][(pc = "loop" /\ queue # <<>> /\ queue[1][1] \in visited_urls) =>
              visited_urls' = visited_urls]_vars

\* a link to a URL that was waiting in the queue has been found again, on a
\* later page, and the URL is still waiting
C24_Witness ==
    /\ pc = "loop"
    /\ \E p, q \in DOMAIN url_hierarchy :
          /\ p # q
          /\ \E u \in Range(url_hierarchy[p]) \cap Range(url_hierarchy[q]) :
                u \in QueueUrls(queue)

-----------------------------------------------------------------------------
(* Crawls of one Crawler object against a site that does not change *)

MaxRuns == 2            \* calls of crawl on the one Crawler object

SiteUrls == {UA, UD, US, UG}

\* the pages a URL of the site may link to
SiteTargets(u) ==
    CASE u = UA -> SeqsUpTo({UD, US, UG}, MaxAnchors)
      [] u = UD -> SeqsUpTo({UA, US, UG}, 1)
      [] u = UG -> SeqsUpTo({UA, UD, US}, 1)
      [] OTHER  -> {<<>>, <<US>>}

\* a site: for each URL the targets of the links of its page, in document
\* order
Sites ==
    {f \in [SiteUrls -> SeqsUpTo(SiteUrls, MaxAnchors)] :
        \A u \in SiteUrls : f[u] \in SiteTargets(u)}

SiteAnchor(v) ==
    [href |-> v,
     text |-> CASE v = UA -> "Home" [] v = UD -> "Docs"
                [] v = UG -> "Guide" [] OTHER -> ""]

\* what requests.get + BeautifulSoup give for the URL u of the site, for
\* extract_clean_text and for get_links: the same at every fetch
SiteOutcome(site, u) ==
    [raises |-> FALSE, stored |-> 3,
     title |-> IF u = US THEN "Untitled" ELSE "Page", text |-> "body"]

SiteLinkPage(site, u) ==
    [anchors |-> [i \in DOMAIN site[u] |-> SiteAnchor(site[u][i])],
     fetched |-> TRUE]

\* (mutant) crawl empties the containers of the object in place
ResetRebinds_InPlace == FALSE

\* crawler.py:348-355: crawl binds the fields to new containers; those of
\* the crawl before stay as they are, for whoever still holds them
ResetRebinds == TRUE

\* rr.gen numbers the containers the fields are bound to, rr.heap keeps the
\* containers of the generations before it, rr.returned lists the results
\* crawl has returned: the generation of the containers they refer to and
\* their value at the return.  rr.dequeued lists the (url, depth) entries
\* the running crawl has taken from the queue.
SiteInit ==
    /\ CrawlerInit
    /\ rr \in [pc : {"idle"}, site : Sites,
               seeds : [1..MaxRuns -> {UA, UD}],
               gen : {1}, heap : {<<>>}, returned : {<<>>},
               dequeued : {<<>>}]
    /\ UrlOff /\ ChunkOff /\ MergeOff /\ IdentifyOff /\ ExtractOff
    /\ MultiOff /\ DocOff /\ TextOff

\* the dict crawl returns holds the containers themselves for five of the
\* maps and a copy, dict(self.url_hierarchy), for hierarchy
\* (crawler.py:390-397)
Deref(r) ==
    IF r.gen = rr.gen
    THEN [CrawlResult EXCEPT !.hierarchy = r.snapshot.hierarchy]
    ELSE [rr.heap[r.gen] EXCEPT !.hierarchy = r.snapshot.hierarchy]

SiteCrawlStart ==
    /\ rr.pc = "idle"
    /\ Len(rr.returned) < Len(rr.seeds)
    /\ CrawlBegin(rr.seeds[Len(rr.returned) + 1])
    /\ rr' = [rr EXCEPT
                !.pc = "crawl",
                !.gen = IF ResetRebinds THEN @ + 1 ELSE @,
                !.heap = IF ResetRebinds THEN Append(@, CrawlResult) ELSE @,
                !.dequeued = <<>>]
    /\ UNCHANGED <<uv, ck, mg, pm, ex, cm, ds, tx>>

SiteCrawlStep ==
    /\ rr.pc = "crawl"
    /\ pc = "loop"
    /\ LoopCond(queue, visited_urls, max_pages)
    /\ IF queue[1][1] \in visited_urls
       THEN CrawlSkip
       ELSE CrawlVisit(SiteOutcome(rr.site, queue[1][1]),
                       SiteLinkPage(rr.site, queue[1][1]))
    /\ rr' = [rr EXCEPT !.dequeued = Append(@, queue[1])]
    /\ UNCHANGED <<max_pages, max_depth, start_url>>
    /\ UNCHANGED <<uv, ck, mg, pm, ex, cm, ds, tx>>

SiteCrawlReturn ==
    /\ rr.pc = "crawl"
    /\ CrawlReturn
    /\ rr' = [rr EXCEPT
                !.pc = "idle",
                !.returned = Append(@, [gen |-> rr.gen, seed |-> start_url,
                                        snapshot |-> CrawlResult])]
    /\ UNCHANGED <<uv, ck, mg, pm, ex, cm, ds, tx>>

SiteNext ==
    \/ SiteCrawlStart
    \/ SiteCrawlStep
    \/ SiteCrawlReturn

SpecSite == SiteInit /\ [][SiteNext]_vars

\* C21: two crawls from the same seed, with the same max_pages and
\* max_depth, against the same site, the second on the Crawler object the
\* first has used, return the same hierarchy, depths and titles.
C21_SameSiteSameResult ==
    (Len(rr.returned) = 2 /\ rr.returned[1].seed = rr.returned[2].seed) =>
        /\ rr.returned[1].snapshot.hierarchy = rr.returned[2].snapshot.hierarchy
        /\ rr.returned[1].snapshot.depths = rr.returned[2].snapshot.depths
        /\ rr.returned[1].snapshot.titles = rr.returned[2].snapshot.titles

\* the second crawl from the same seed has returned, and the crawls went
\* two links deep over three pages
C21_Witness ==
    /\ Len(rr.returned) = 2
    /\ rr.returned[1].seed = rr.returned[2].seed
    /\ Cardinality(visited_urls) = 3
    /\ \E u \in DOMAIN rr.returned[2].snapshot.depths :
          rr.returned[2].snapshot.depths[u] = 2

\* C22: the six maps of a result that crawl has returned stay as they were
\* at the return, through every later crawl on the same Crawler object.
C22_ReturnedResultUnchanged ==
    \A i \in DOMAIN rr.returned : Deref(rr.returned[i]) = rr.returned[i].snapshot

\* a second crawl, from another seed, has filled its own maps
C22_Witness ==
    /\ Len(rr.returned) = 2
    /\ rr.returned[1].seed # rr.returned[2].seed
    /\ rr.returned[1].snapshot.content # rr.returned[2].snapshot.content
    /\ rr.returned[1].snapshot.hierarchy # EmptyMap

\* the entries a step has put behind those that were waiting
NewEntries == SubSeq(queue', Len(queue), Len(queue'))

\* C23: the queue is first-in first-out and the depths of the entries taken
\* from it never decrease, so that every entry of depth d is taken before
\* any entry of depth d+1; the links of one page are queued in the order of
\* their priority rank, behind the entries already waiting, and each of
\* them is queued unless it is visited or waiting already.
C23_BreadthFirst ==
    /\ [](\A i, j \in DOMAIN rr.dequeued :
             i < j => rr.dequeued[i][2] <= rr.dequeued[j][2])
    /\ [](\A i \in DOMAIN rr.dequeued, j \in DOMAIN queue :
             rr.dequeued[i][2] <= queue[j][2])
    /\ [](\A i, j \in DOMAIN queue : i < j => queue[i][2] <= queue[j][2])
    /\ [][(pc = "loop" /\ pc' = "loop" /\ queue # <<>>) =>
              /\ Len(queue') >= Len(queue) - 1
              /\ SubSeq(queue', 1, Len(queue) - 1) = Tail(queue)
              /\ \A i, j \in DOMAIN NewEntries :
                    i < j => get_url_priority(NewEntries[i][1])
                                 <= get_url_priority(NewEntries[j][1])]_vars
    /\ [](\A p \in DOMAIN url_hierarchy :
             /\ SameElements(prioritize_urls(url_hierarchy[p]),
                             url_hierarchy[p])
             /\ Range(url_hierarchy[p])
                    \subseteq visited_urls \cup QueueUrls(queue))

\* a page of depth 1 waits in front of a page of depth 2, and the links of
\* some page were queued in another order than the page lists them
C23_Witness ==
    /\ \E i, j \in DOMAIN queue : i < j /\ queue[i][2] < queue[j][2]
    /\ \E p \in DOMAIN url_hierarchy :
          prioritize_urls(url_hierarchy[p]) # url_hierarchy[p]

-----------------------------------------------------------------------------
(* Cycles in the hierarchy *)

\* the URLs one parent-to-child edge away from a URL of S
Children(hierarchy, S) ==
    UNION {Range(hierarchy[p]) : p \in S \cap DOMAIN hierarchy}

\* the URLs some path of one edge or more leads to from S
RECURSIVE Descendants(_, _, _)
Descendants(hierarchy, S, seen) ==
    LET next == Children(hierarchy, S) \ seen
    IN  IF next = {} THEN seen
        ELSE Descendants(hierarchy, next, seen \cup next)

Acyclic(hierarchy) ==
    \A u \in DOMAIN hierarchy : u \notin Descendants(hierarchy, {u}, {})

\* C29: the hierarchy contains no directed cycle, self-links included,
\* neither the hierarchy of the crawl that is running or has returned nor
\* the union crawl_multiple builds over its seeds.
C29_HierarchyAcyclic ==
    Acyclic(url_hierarchy) /\ Acyclic(cm.all_results.hierarchy)

-----------------------------------------------------------------------------
(* Packaging of the candidates *)

\* C30: every candidate gets its own packaged module: modules_content has
\* as many entries as there are candidates, two candidates of the same
\* title included.
C30_OnePackagePerCandidate ==
    pm.pc = "ret" =>
        Len(group_urls_by_module(pm.potential_modules, <<>>))
            = Len(pm.potential_modules)

-----------------------------------------------------------------------------
(* The depth relaxation of _identify_potential_modules, call by call *)

\* pm.stack holds the running calls of _calculate_depth, the innermost
\* first: the children its loop has still to look at, and its depth.
\* pm.relaxed tells that some URL was given a smaller depth than it had.
DepthInit ==
    /\ \E hierarchy \in HierarchyInputs :
         \E roots \in Orders(RootUrls(hierarchy)) :
            pm = [pc |-> "depth", hierarchy |-> hierarchy, roots |-> roots,
                  stack |-> <<>>, url_depth |-> <<>>, relaxed |-> FALSE]
    /\ CrawlOff /\ UrlOff /\ ChunkOff /\ MergeOff /\ ExtractOff /\ MultiOff
    /\ RestOff

\* extractor.py:64-67: the next root
DepthRoot ==
    /\ pm.pc = "depth" /\ pm.stack = <<>> /\ pm.roots # <<>>
    /\ pm' = [pm EXCEPT
                !.roots = Tail(@),
                !.url_depth = ODictSet(@, Head(pm.roots), 0),
                !.stack = <<[children |-> ChildUrls(pm.hierarchy,
                                                    Head(pm.roots)),
                             depth |-> 0]>>]
    /\ UNCHANGED <<crawlVars, uv, ck, mg, ex, cm, restVars>>

\* extractor.py:124-127: the loop of the innermost call takes its next
\* child
DepthChild ==
    /\ pm.pc = "depth" /\ pm.stack # <<>> /\ pm.stack[1].children # <<>>
    /\ LET child == Head(pm.stack[1].children)
           depth == pm.stack[1].depth
           frame == [pm.stack[1] EXCEPT !.children = Tail(@)]
       IN  IF Relaxes(child, pm.url_depth, depth)
           THEN pm' = [pm EXCEPT
                         !.url_depth = ODictSet(@, child, depth + 1),
                         !.relaxed = @ \/ child \in ODictKeys(pm.url_depth),
                         !.stack = <<[children |-> ChildUrls(pm.hierarchy,
                                                             child),
                                      depth |-> depth + 1], frame>>
                                   \o Tail(pm.stack)]
           ELSE pm' = [pm EXCEPT !.stack = <<frame>> \o Tail(pm.stack)]
    /\ UNCHANGED <<crawlVars, uv, ck, mg, ex, cm, restVars>>

\* the loop of the innermost call is over and the call returns
DepthReturn ==
    /\ pm.pc = "depth" /\ pm.stack # <<>> /\ pm.stack[1].children = <<>>
    /\ pm' = [pm EXCEPT !.stack = Tail(@)]
    /\ UNCHANGED <<crawlVars, uv, ck, mg, ex, cm, restVars>>

\* the loop over the roots is over
DepthDone ==
    /\ pm.pc = "depth" /\ pm.stack = <<>> /\ pm.roots = <<>>
    /\ pm' = [pm EXCEPT !.pc = "ret"]
    /\ UNCHANGED <<crawlVars, uv, ck, mg, ex, cm, restVars>>

DepthNext ==
    \/ DepthRoot
    \/ DepthChild
    \/ DepthReturn
    \/ DepthDone

\* the interpreter goes on running the calls
SpecDepth == DepthInit /\ [][DepthNext]_vars /\ WF_vars(DepthNext)

\* the number of edges of a shortest path from a URL of frontier to u,
\* plus k; seen holds the URLs nearer than that
RECURSIVE ShortestFrom(_, _, _, _, _)
ShortestFrom(hierarchy, frontier, seen, k, u) ==
    IF u \in frontier THEN k
    ELSE ShortestFrom(hierarchy,
                      Children(hierarchy, frontier) \ (seen \cup frontier),
                      seen \cup frontier, k + 1, u)

\* the URLs some path leads to from a root, the roots included
FromRoots(hierarchy) ==
    RootUrls(hierarchy)
        \cup Descendants(hierarchy, RootUrls(hierarchy), {})

\* C28: on every hierarchy, one with cycles included, the depth relaxation
\* comes to an end, and then the URLs that have a depth are those a path
\* leads to from a root, each with the length of a shortest path from the
\* nearest root.
C28_DepthRelaxationTerminates ==
    /\ <>(pm.pc = "ret")
    /\ [](pm.pc = "ret" =>
            /\ ODictKeys(pm.url_depth) = FromRoots(pm.hierarchy)
            /\ \A u \in ODictKeys(pm.url_depth) :
                  ODictGet(pm.url_depth, u)
                      = ShortestFrom(pm.hierarchy, RootUrls(pm.hierarchy),
                                     {}, 0, u))

\* the relaxation is over on a hierarchy that has a cycle below a root,
\* after a URL was given a smaller depth than the one it had first
C28_Witness ==
    /\ pm.pc = "ret"
    /\ ~Acyclic(pm.hierarchy)
    /\ pm.url_depth # <<>>
    /\ pm.relaxed

-----------------------------------------------------------------------------
(* Crawler.extract_document_structure and _extract_subheadings *)

MaxDocHeadings == 4     \* heading tags of one page

\* the heading tags of a page, in document order
DocHeadings == [level : 1..3, text : {"A", "B"}, id : {""}]

Documents == SeqsUpTo(DocHeadings, MaxDocHeadings)

\* the loops of crawler.py:180-186 from level i on: element.find_all(h<i>)
\* gives the tags of one level in document order
RECURSIVE HeadingsFromLevel(_, _)
HeadingsFromLevel(doc, i) ==
    IF i > 6 THEN <<>>
    ELSE LevelHeadings(doc, i) \o HeadingsFromLevel(doc, i + 1)

\* structure["headings"] of extract_document_structure
extract_document_structure(doc) == HeadingsFromLevel(doc, 1)

\* extractor.py:310-314: the index of the first heading of that level and
\* text, 0 for -1
ParentIndex(headings, parent_heading, parent_level) ==
    IF \E i \in DOMAIN headings :
          headings[i].level = parent_level /\ headings[i].text = parent_heading
    THEN CHOOSE i \in DOMAIN headings :
            /\ headings[i].level = parent_level
            /\ headings[i].text = parent_heading
            /\ \A j \in 1..(i - 1) :
                  ~(headings[j].level = parent_level
                    /\ headings[j].text = parent_heading)
    ELSE 0

\* the while loop of extractor.py:320-329, from index i on
RECURSIVE SubheadingsFrom(_, _, _)
SubheadingsFrom(headings, i, parent_level) ==
    IF i > Len(headings) THEN <<>>
    ELSE IF headings[i].level <= parent_level THEN <<>>
    ELSE (IF headings[i].level = parent_level + 1
          THEN <<headings[i].text>> ELSE <<>>)
         \o SubheadingsFrom(headings, i + 1, parent_level)

\* _extract_subheadings, extractor.py:305-331
extract_subheadings(headings, parent_heading, parent_level) ==
    LET parent_index == ParentIndex(headings, parent_heading, parent_level)
    IN  IF parent_index = 0 THEN <<>>
        ELSE SubheadingsFrom(headings, parent_index + 1, parent_level)

DocInit ==
    /\ ds \in [pc : {"page"}, doc : Documents, headings : {<<>>},
               parent : {0}, subheadings : {<<>>}]
    /\ CrawlOff /\ UrlOff /\ ChunkOff /\ MergeOff /\ IdentifyOff /\ ExtractOff
    /\ MultiOff /\ TextOff /\ SiteOff

\* crawler.py:80-81: the structure of the fetched page is stored
ExtractStructureCall ==
    /\ ds.pc = "page"
    /\ ds' = [ds EXCEPT !.pc = "stored",
                        !.headings = extract_document_structure(ds.doc)]
    /\ UNCHANGED <<crawlVars, uv, ck, mg, pm, ex, cm, tx, rr>>

\* extractor.py:171-187: the subheadings of a heading candidate of the
\* page, the heading ds.doc[k], are taken from the stored headings
ExtractSubheadingsCall ==
    /\ ds.pc = "stored"
    /\ \E k \in DOMAIN ds.doc :
         /\ ds.doc[k].level = FirstModuleLevel(ds.headings)
         /\ ds' = [ds EXCEPT
                     !.pc = "grouped",
                     !.parent = k,
                     !.subheadings =
                         extract_subheadings(ds.headings, ds.doc[k].text,
                                             ds.doc[k].level)]
    /\ UNCHANGED <<crawlVars, uv, ck, mg, pm, ex, cm, tx, rr>>

DocNext ==
    \/ ExtractStructureCall
    \/ ExtractSubheadingsCall

SpecDoc == DocInit /\ [][DocNext]_vars

\* C25: the stored headings are the heading tags of the page in document
\* order, whatever their levels, none dropped and none twice.
C25_HeadingsInDocumentOrder ==
    ds.pc \in {"stored", "grouped"} => ds.headings = ds.doc

\* the texts of the headings one level below parent_level that follow
\* position i - 1 of the document, up to the next heading of parent_level
\* or above
RECURSIVE SectionSubheadings(_, _, _)
SectionSubheadings(doc, i, parent_level) ==
    IF i > Len(doc) \/ doc[i].level <= parent_level THEN <<>>
    ELSE (IF doc[i].level = parent_level + 1 THEN <<doc[i].text>> ELSE <<>>)
         \o SectionSubheadings(doc, i + 1, parent_level)

\* C26: the subheadings attached to a heading candidate H of level L are
\* the headings of level L+1 that follow H in the document, before the
\* next heading of level L or above.
C26_SubheadingsOfSection ==
    ds.pc = "grouped" =>
        ds.subheadings
            = SectionSubheadings(ds.doc, ds.parent + 1,
                                 ds.doc[ds.parent].level)

-----------------------------------------------------------------------------
\* Crawler.extract_clean_text: the choice of the text that is returned.
\* A text is represented by the extractor that made it and its length,
\* the only thing the choice looks at.

MaxRenderLen == 90

\* the lengths n for which Python's double product n * 0.7 is below the
\* exact 7n/10 (90 * 0.7 = 62.99999999999999); for every other length up
\* to 329 the comparison of an integer with n * 0.7 agrees with the exact
\* one
RoundsDown == {90, 170, 180}

UseAlternate_AtLeast(traf_len, enhanced_len) ==
    10 * traf_len >= 7 * enhanced_len

\* crawler.py:91  traf_text and len(traf_text) > len(enhanced_text) * 0.7
UseAlternate(traf_len, enhanced_len) ==
    /\ traf_len > 0
    /\ \/ 10 * traf_len > 7 * enhanced_len
       \/ /\ 10 * traf_len = 7 * enhanced_len
          /\ enhanced_len \in RoundsDown

\* what trafilatura does for the page: fetch_url raises, fetch_url returns
\* nothing, extract returns None, or extract returns a text
TrafOutcomes ==
    [kind : {"raises", "not_downloaded", "none"}, len : {0}]
        \cup [kind : {"text"}, len : 0..MaxRenderLen]

TextInit ==
    /\ tx \in [pc : {"page"}, enhanced_len : 0..MaxRenderLen,
               traf : TrafOutcomes, structure : {"unset"},
               metadata : {"unset"}, returned : {[by |-> "unset", len |-> 0]}]
    /\ CrawlOff /\ UrlOff /\ ChunkOff /\ MergeOff /\ IdentifyOff /\ ExtractOff
    /\ MultiOff /\ DocOff /\ SiteOff

\* crawler.py:72-96, for a page that requests and BeautifulSoup handled
ExtractCleanTextCall ==
    /\ tx.pc = "page"
    /\ tx' = [tx EXCEPT
                !.pc = "returned",
                !.metadata = "soup",
                !.structure = "soup",
                !.returned =
                    IF /\ tx.traf.kind = "text"
                       /\ UseAlternate(tx.traf.len, tx.enhanced_len)
                    THEN [by |-> "trafilatura", len |-> tx.traf.len]
                    ELSE [by |-> "structured", len |-> tx.enhanced_len]]
    /\ UNCHANGED <<crawlVars, uv, ck, mg, pm, ex, cm, ds, rr>>

TextNext == ExtractCleanTextCall

SpecText == TextInit /\ [][TextNext]_vars

BothReturnText ==
    /\ tx.pc = "returned"
    /\ tx.traf.kind = "text" /\ tx.traf.len > 0
    /\ tx.enhanced_len > 0

=============================================================================
